---- MODULE Spec2Model ----
(***************************************************************************)
(* Dostify backend: the chat turn handler POST /api/chat of routes/chat.js *)
(* (history mapping, first model call, tool loop, follow-up call, save,    *)
(* response) over the Chat, Task and MoodLog collections.                  *)
(***************************************************************************)
EXTENDS Integers, Sequences, FiniteSets, TLC

(***************************************************************************)
(* Bounds of the model and program constants.                              *)
(***************************************************************************)
\* chat turns started in one behaviour of Spec
MaxTurns == 2
\* tool calls listed in one behaviour of Spec
MaxCalls == 2
\* chat turns started and tool calls listed in one behaviour of SpecWindow
WinTurns == 7
WinCalls == 2
\* chat turns started and tool calls listed in one behaviour of SpecFeedback
FbTurns == 2
FbCalls == 3
\* chat turns started and tool calls listed in one behaviour of the
\* specifications of the single tools (SpecRead, SpecCreate, SpecMood,
\* SpecDelete, SpecUpdate)
ToolTurns == 2
ToolCalls == 2
EpTurns == 3
EpCalls == 1
PrTurns == 3
CcTurns == 3
CcCalls == 1
\* const CONTEXT_LIMIT = 10
CONTEXT_LIMIT == 10
\* chat.messages.slice(-15) in the 200 response
RESPONSE_SLICE == 15

(***************************************************************************)
(* Values.                                                                 *)
(***************************************************************************)
\* JavaScript null / undefined for a string-valued field
Null == "null"

\* A JSON value of a tool argument: k is "absent" (undefined), "int", "bool"
\* (n is 0 or 1) or "str" (s is the text).
JVal(k, n, s) == [k |-> k, n |-> n, s |-> s]
Absent == JVal("absent", 0, "")
JInt(n) == JVal("int", n, "")
JStr(s) == JVal("str", 0, s)
JBool(b) == JVal("bool", IF b THEN 1 ELSE 0, "")
\* the number n + 0.5
JFrac(n) == JVal("frac", n, ".5")

\* The object JSON.parse yields for a tool call's arguments.
NoArgs ==
  [mood |-> Absent, note |-> Absent, days |-> Absent,
   title |-> Absent, description |-> Absent, dueDate |-> Absent,
   completed |-> Absent, identifier |-> Absent,
   newTitle |-> Absent, newDescription |-> Absent, newDueDate |-> Absent,
   markCompleted |-> Absent, messageIndex |-> Absent, rating |-> Absent]

\* function.arguments is a raw string: either the serialization of an object
\* or text that JSON.parse rejects.
ArgString(obj) == [json |-> TRUE, obj |-> obj]
BadArgString == [json |-> FALSE, obj |-> NoArgs]

\* One entry of responseMessage.tool_calls.
ToolCall(id, type, name, arguments) ==
  [id |-> id, type |-> type, name |-> name, arguments |-> arguments]

\* A tool result object {success, message?, error?, ...}; data carries the
\* tool specific payload as a sequence of integers.
Result(success, message, error, data) ==
  [success |-> success, message |-> message, error |-> error, data |-> data]
NoResult == Result(FALSE, Null, Null, <<>>)

\* JSON.stringify of a tool result (the content of a role 'tool' entry).
Stringify(result) == <<"json", result>>

(***************************************************************************)
(* MessageSchema: one stored message of a session.  feedback is <<>> when  *)
(* unset and <<rating>> when set; toolResultData is <<>> or <<result>>.    *)
(***************************************************************************)
Message(sender, message, type, imageUrl) ==
  [sender |-> sender, message |-> message, type |-> type,
   imageUrl |-> imageUrl, feedback |-> <<>>, tool_calls |-> <<>>,
   tool_call_id |-> Null, tool_name |-> Null, toolResultData |-> <<>>]

userMessageToSave(input) ==
  Message("user", input.message, input.type,
          IF input.type = "image" /\ input.imageUrl # Null
            THEN input.imageUrl ELSE Null)

assistantToolCallRequestMessage(responseMessage) ==
  [Message("ai", responseMessage.content, "tool_request", Null)
     EXCEPT !.tool_calls = responseMessage.tool_calls.calls]

\* a result message that stores the tool name where the call identifier goes
toolResultMessageSwapped(toolCallId, functionName, result) ==
  [Message("tool",
           IF result.message # Null /\ result.message # ""
             THEN result.message
             ELSE IF result.success THEN "Executed" ELSE "Failed to execute",
           "tool_result", Null)
     EXCEPT !.tool_call_id = functionName, !.tool_name = toolCallId,
            !.toolResultData = <<result>>]

toolResultMessage(toolCallId, functionName, result) ==
  [Message("tool",
           IF result.message # Null /\ result.message # ""
             THEN result.message
             ELSE IF result.success THEN "Executed" ELSE "Failed to execute",
           "tool_result", Null)
     EXCEPT !.tool_call_id = toolCallId, !.tool_name = functionName,
            !.toolResultData = <<result>>]

parseErrorMessage(toolCallId, functionName, result) ==
  [Message("tool", "Error executing tool: Invalid arguments provided by AI.",
           "tool_result", Null)
     EXCEPT !.tool_call_id = toolCallId, !.tool_name = functionName,
            !.toolResultData = <<result>>]

aiMessageToSave(content) == Message("ai", content, "text", Null)

(***************************************************************************)
(* History mapper: stored messages -> entries of the model request.        *)
(***************************************************************************)
\* An entry of the request's messages array.  content is a sequence of parts
\* for a user entry and a one-element sequence otherwise.
Entry(role, content, tool_calls, tool_call_id, name) ==
  [role |-> role, content |-> content, tool_calls |-> tool_calls,
   tool_call_id |-> tool_call_id, name |-> name]

TextPart(text) == [type |-> "text", v |-> text]
ImagePart(url) == [type |-> "image_url", v |-> url]

\* a mapping that passes a message of unknown sender on as a user message
mapMessageUnknownAsUser(m) ==
  IF m.sender = "ai" THEN
    IF Len(m.tool_calls) > 0 THEN
      <<Entry("assistant", <<TextPart(m.message)>>,
              SelectSeq(m.tool_calls,
                        LAMBDA tc : tc.id # Null /\ tc.id # "" /\
                                    tc.name # Null /\ tc.name # ""),
              Null, Null)>>
    ELSE <<Entry("assistant", <<TextPart(m.message)>>, <<>>, Null, Null)>>
  ELSE IF m.sender = "tool" THEN
    <<Entry("tool",
            IF m.toolResultData # <<>>
              THEN <<Stringify(m.toolResultData[1])>>
              ELSE IF m.message # Null /\ m.message # ""
                THEN <<TextPart(m.message)>>
                ELSE <<TextPart("Missing tool result data")>>,
            <<>>, m.tool_call_id, m.tool_name)>>
  ELSE
    <<Entry("user",
            <<TextPart(IF m.message = Null THEN "" ELSE m.message)>> \o
              (IF m.type = "image" /\ m.imageUrl # Null
                 THEN <<ImagePart(m.imageUrl)>> ELSE <<>>),
            <<>>, Null, Null)>>

\* the mapping callback of chat.messages.slice(-CONTEXT_LIMIT).map(...);
\* <<>> stands for the null returned for an unknown sender
mapMessage(m) ==
  IF m.sender = "user" THEN
    <<Entry("user",
            <<TextPart(IF m.message = Null THEN "" ELSE m.message)>> \o
              (IF m.type = "image" /\ m.imageUrl # Null
                 THEN <<ImagePart(m.imageUrl)>> ELSE <<>>),
            <<>>, Null, Null)>>
  ELSE IF m.sender = "ai" THEN
    IF Len(m.tool_calls) > 0 THEN
      <<Entry("assistant", <<TextPart(m.message)>>,
              SelectSeq(m.tool_calls,
                        LAMBDA tc : tc.id # Null /\ tc.id # "" /\
                                    tc.name # Null /\ tc.name # ""),
              Null, Null)>>
    ELSE <<Entry("assistant", <<TextPart(m.message)>>, <<>>, Null, Null)>>
  ELSE IF m.sender = "tool" THEN
    <<Entry("tool",
            IF m.toolResultData # <<>>
              THEN <<Stringify(m.toolResultData[1])>>
              ELSE IF m.message # Null /\ m.message # ""
                THEN <<TextPart(m.message)>>
                ELSE <<TextPart("Missing tool result data")>>,
            <<>>, m.tool_call_id, m.tool_name)>>
  ELSE <<>>

\* the first n elements instead of the last n
SliceFirst(s, n) ==
  IF Len(s) <= n THEN s ELSE SubSeq(s, 1, n)

\* chat.messages.slice(-n)
SliceLast(s, n) ==
  IF Len(s) <= n THEN s ELSE SubSeq(s, Len(s) - n + 1, Len(s))

RECURSIVE FlatMap(_)
FlatMap(s) ==
  IF s = <<>> THEN <<>> ELSE mapMessage(Head(s)) \o FlatMap(Tail(s))

currentUserEntry(input) ==
  Entry("user",
        <<TextPart(input.message)>> \o
          (IF input.type = "image" /\ input.imageUrl # Null
             THEN <<ImagePart(input.imageUrl)>> ELSE <<>>),
        <<>>, Null, Null)

\* history after line 234: mapped window, then the current user message
buildHistory(messages, input) ==
  FlatMap(SliceLast(messages, CONTEXT_LIMIT)) \o <<currentUserEntry(input)>>

(***************************************************************************)
(* Collections.  A Task is [id, user, title, description, dueDate,         *)
(* completed]; a MoodLog is [user, mood, note, daysAgo]; a Chat document   *)
(* is [user, sessionId, messages].                                         *)
(***************************************************************************)
\* _id strings handed out to new Task documents, in order
OBJECT_IDS == <<"id1", "id2", "id3", "id4", "id5", "id6", "id7", "id8">>

\* mongoose.Types.ObjectId.isValid(identifier)
ObjectIdIsValid(s) == \E i \in 1..Len(OBJECT_IDS) : OBJECT_IDS[i] = s

\* date strings new Date(...) parses to a valid date
VALID_DATES == {"2025-01-01", "2025-02-02"}

\* new Date(s) with the isNaN(getTime()) test: <<>> when the date is invalid
parseDate(s) == IF s \in VALID_DATES THEN <<s>> ELSE <<>>

\* new Date(v) of a truthy JSON value: a string is parsed, a number or true
\* is taken as milliseconds since the epoch
parseDateValue(v) ==
  IF v.k = "str" THEN parseDate(v.s)
  ELSE IF v.k \in {"int", "bool"} THEN <<"1970-01-01">>
  ELSE <<>>

\* parseInt of the strings of the model that are numerals: <<>> stands for NaN
parseIntString(s) ==
  CASE s = "8" -> <<8>>
    [] s = "15" -> <<15>>
    [] s = "0" -> <<0>>
    [] OTHER -> <<>>

\* parseInt(v) and isNaN(parseInt(v)) of a JSON value: an integer is itself,
\* n + 0.5 (n >= 0) gives n, a string is parsed, undefined and booleans give
\* NaN
isNaNParseInt(v) ==
  ~(v.k \in {"int", "frac"} \/ (v.k = "str" /\ parseIntString(v.s) # <<>>))
parseInt(v) == IF v.k = "str" THEN parseIntString(v.s)[1] ELSE v.n

\* v < a and v > a for a value v that is a number or a numeral, a an integer
lessThan(v, a) == IF v.k = "frac" THEN v.n < a ELSE parseInt(v) < a
greaterThan(v, a) == IF v.k = "frac" THEN v.n >= a ELSE parseInt(v) > a

\* the Number a Mongoose path holds after v was assigned: <<n>> for the
\* integer n, <<n, 5>> for n + 0.5
numberValue(v) == IF v.k = "frac" THEN <<v.n, 5>> ELSE <<parseInt(v)>>

\* JavaScript truthiness of a JSON value
truthy(v) ==
  \/ v.k = "int" /\ v.n # 0
  \/ v.k = "bool" /\ v.n = 1
  \/ v.k = "str" /\ v.s # ""

\* index of the first element of s satisfying the query, 0 when none
RECURSIVE findIndexFrom(_, _, _)
findIndexFrom(s, match(_), i) ==
  IF i > Len(s) THEN 0
  ELSE IF match(s[i]) THEN i
  ELSE findIndexFrom(s, match, i + 1)

RemoveAt(s, i) == SubSeq(s, 1, i - 1) \o SubSeq(s, i + 1, Len(s))

\* a query without the user condition
taskQueryAnyUser(identifier, userId, t) ==
  IF ObjectIdIsValid(identifier) THEN t.id = identifier ELSE t.title = identifier

\* the query of update_task and delete_task (lines 425-427, 458-460)
taskQuery(identifier, userId, t) ==
  IF ObjectIdIsValid(identifier)
    THEN t.id = identifier /\ t.user = userId
    ELSE t.title = identifier /\ t.user = userId

\* what one tool execution leaves behind
Outcome(result, tasks_, moods_, messages_, nextId_) ==
  [result |-> result, tasks |-> tasks_, moods |-> moods_,
   messages |-> messages_, nextId |-> nextId_]

\* a catch that reports the failure without its text
toolErrorNoText(text, db) ==
  Outcome(Result(FALSE, Null, Null, <<>>),
          db.tasks, db.moods, db.messages, db.nextId)

\* the catch of the tool try block (lines 505-508)
toolError(text, db) ==
  Outcome(Result(FALSE, Null, "Server error executing tool: " \o text, <<>>),
          db.tasks, db.moods, db.messages, db.nextId)

\* a log_mood whose lower limit is 0
case_log_moodFromZero(args, userId, db, storeOk) ==
  IF isNaNParseInt(args.mood) \/ parseInt(args.mood) < 0 \/ parseInt(args.mood) > 10
    THEN Outcome(Result(FALSE, Null, "Server error executing tool: Mood value must be an integer between 1 and 10.", <<>>),
                 db.tasks, db.moods, db.messages, db.nextId)
  ELSE Outcome(Result(TRUE, "Mood logged successfully.", Null, <<parseInt(args.mood)>>),
               db.tasks,
               Append(db.moods, [user |-> userId, mood |-> parseInt(args.mood),
                                 note |-> args.note, daysAgo |-> 0]),
               db.messages, db.nextId)

case_log_mood(args, userId, db, storeOk) ==
  IF isNaNParseInt(args.mood) \/ parseInt(args.mood) < 1 \/ parseInt(args.mood) > 10
    THEN toolError("Mood value must be an integer between 1 and 10.", db)
  ELSE IF ~storeOk THEN toolError("store", db)
  ELSE Outcome(Result(TRUE, "Mood logged successfully.", Null, <<parseInt(args.mood)>>),
               db.tasks,
               Append(db.moods, [user |-> userId, mood |-> parseInt(args.mood),
                                 note |-> args.note, daysAgo |-> 0]),
               db.messages, db.nextId)

\* a create_task that fails on a due date it cannot parse
case_create_taskStrictDate(args, userId, db, storeOk) ==
  IF truthy(args.dueDate) /\ parseDateValue(args.dueDate) = <<>>
    THEN Outcome(Result(FALSE, Null, "Server error executing tool: Invalid date format provided by AI.", <<>>),
                 db.tasks, db.moods, db.messages, db.nextId)
  ELSE IF args.title.k # "str" \/ args.title.s = "" \/ ~storeOk
    THEN Outcome(Result(FALSE, Null, "Server error executing tool: store", <<>>),
                 db.tasks, db.moods, db.messages, db.nextId)
  ELSE Outcome(Result(TRUE, "Task created successfully.", Null, <<db.nextId>>),
               Append(db.tasks,
                      [id |-> OBJECT_IDS[db.nextId], user |-> userId,
                       title |-> args.title.s, description |-> args.description,
                       dueDate |-> parseDateValue(args.dueDate),
                       completed |-> FALSE]),
               db.moods, db.messages, db.nextId + 1)

case_create_task(args, userId, db, storeOk) ==
  LET parsedDueDate == IF truthy(args.dueDate)
                         THEN parseDateValue(args.dueDate) ELSE <<>>
      titleOk == args.title.k = "str" /\ args.title.s # ""
  IN IF ~titleOk THEN toolError("Task validation failed: title is required", db)
     ELSE IF ~storeOk \/ db.nextId > Len(OBJECT_IDS) THEN toolError("store", db)
     ELSE Outcome(Result(TRUE,
                         IF parsedDueDate # <<>>
                           THEN "Task created successfully. Due"
                           ELSE "Task created successfully.",
                         Null, <<db.nextId>>),
                  Append(db.tasks,
                         [id |-> OBJECT_IDS[db.nextId], user |-> userId,
                          title |-> args.title.s,
                          description |-> args.description,
                          dueDate |-> parsedDueDate, completed |-> FALSE]),
                  db.moods, db.messages, db.nextId + 1)

\* a get_tasks that marks the tasks it lists as completed
case_get_tasksMarking(args, userId, db, storeOk) ==
  Outcome(Result(TRUE, Null, Null, <<Len(db.tasks)>>),
          [k \in 1..Len(db.tasks) |->
             IF db.tasks[k].user = userId
               THEN [db.tasks[k] EXCEPT !.completed = TRUE] ELSE db.tasks[k]],
          db.moods, db.messages, db.nextId)

case_get_tasks(args, userId, db, storeOk) ==
  LET found == SelectSeq(db.tasks,
                 LAMBDA t : /\ t.user = userId
                            /\ (args.completed.k = "bool" =>
                                  t.completed = (args.completed.n = 1)))
  IN IF ~storeOk THEN toolError("store", db)
     ELSE Outcome(IF Len(found) = 0
                    THEN Result(TRUE, "No tasks found matching the criteria.", Null, <<>>)
                    ELSE Result(TRUE, Null, Null, <<Len(found)>>),
                  db.tasks, db.moods, db.messages, db.nextId)

case_get_mood_history(args, userId, db, storeOk) ==
  LET days == IF isNaNParseInt(args.days) \/ parseInt(args.days) = 0
                THEN 30 ELSE parseInt(args.days)
      found == SelectSeq(db.moods,
                 LAMBDA m : m.user = userId /\ m.daysAgo <= days)
  IN IF days <= 0
       THEN toolError("Number of days must be a positive integer.", db)
     ELSE IF ~storeOk THEN toolError("store", db)
     ELSE Outcome(IF Len(found) = 0
                    THEN Result(TRUE, "No mood logs found.", Null, <<>>)
                    ELSE Result(TRUE, Null, Null, <<Len(found)>>),
                  db.tasks, db.moods, db.messages, db.nextId)

\* an update_task without the test of changesMade
case_update_taskNoChangeCheck(args, userId, db, storeOk) ==
  LET identifier == args.identifier
      setTitle == truthy(args.newTitle)
      setDescription == args.newDescription.k # "absent"
      setCompleted == args.markCompleted.k # "absent"
      parsedDate == IF truthy(args.newDueDate)
                      THEN parseDateValue(args.newDueDate) ELSE <<>>
      setDueDate == parsedDate # <<>>
      changesMade == setTitle \/ setDescription \/ setCompleted \/ setDueDate
      i == findIndexFrom(db.tasks,
                         LAMBDA t : taskQuery(identifier.s, userId, t), 1)
      old == db.tasks[i]
      new == [id |-> old.id, user |-> old.user,
              title |-> IF setTitle THEN args.newTitle.s ELSE old.title,
              description |-> IF setDescription THEN args.newDescription
                                                ELSE old.description,
              dueDate |-> IF setDueDate THEN parsedDate ELSE old.dueDate,
              completed |-> IF setCompleted THEN truthy(args.markCompleted)
                                            ELSE old.completed]
  IN IF ~truthy(identifier)
       THEN toolError("Task identifier (title or ID) is required for update.", db)
     ELSE IF FALSE
       THEN Outcome(Result(FALSE, "No changes provided for the task update.", Null, <<>>),
                    db.tasks, db.moods, db.messages, db.nextId)
     ELSE IF ~storeOk THEN toolError("store", db)
     ELSE IF i = 0
       THEN Outcome(Result(FALSE, Null, "Task not found or access denied.", <<>>),
                    db.tasks, db.moods, db.messages, db.nextId)
     ELSE Outcome(Result(TRUE, "Task updated successfully.", Null, <<>>),
                  [db.tasks EXCEPT ![i] = new],
                  db.moods, db.messages, db.nextId)

\* an update_task that gives up when newDueDate does not parse
case_update_taskAbortOnBadDate(args, userId, db, storeOk) ==
  LET identifier == args.identifier
      setTitle == truthy(args.newTitle)
      setDescription == args.newDescription.k # "absent"
      setCompleted == args.markCompleted.k # "absent"
      parsedDate == IF truthy(args.newDueDate)
                      THEN parseDateValue(args.newDueDate) ELSE <<>>
      setDueDate == parsedDate # <<>>
      changesMade == setTitle \/ setDescription \/ setCompleted \/ setDueDate
      i == findIndexFrom(db.tasks,
                         LAMBDA t : taskQuery(identifier.s, userId, t), 1)
      old == db.tasks[i]
      new == [id |-> old.id, user |-> old.user,
              title |-> IF setTitle THEN args.newTitle.s ELSE old.title,
              description |-> IF setDescription THEN args.newDescription
                                                ELSE old.description,
              dueDate |-> IF setDueDate THEN parsedDate ELSE old.dueDate,
              completed |-> IF setCompleted THEN truthy(args.markCompleted)
                                            ELSE old.completed]
  IN IF ~truthy(identifier)
       THEN toolError("Task identifier (title or ID) is required for update.", db)
     ELSE IF ~changesMade \/ (truthy(args.newDueDate) /\ ~setDueDate)
       THEN Outcome(Result(FALSE, "No changes provided for the task update.", Null, <<>>),
                    db.tasks, db.moods, db.messages, db.nextId)
     ELSE IF ~storeOk THEN toolError("store", db)
     ELSE IF i = 0
       THEN Outcome(Result(FALSE, Null, "Task not found or access denied.", <<>>),
                    db.tasks, db.moods, db.messages, db.nextId)
     ELSE Outcome(Result(TRUE, "Task updated successfully.", Null, <<>>),
                  [db.tasks EXCEPT ![i] = new],
                  db.moods, db.messages, db.nextId)

case_update_task(args, userId, db, storeOk) ==
  LET identifier == args.identifier
      setTitle == truthy(args.newTitle)
      setDescription == args.newDescription.k # "absent"
      setCompleted == args.markCompleted.k # "absent"
      parsedDate == IF truthy(args.newDueDate)
                      THEN parseDateValue(args.newDueDate) ELSE <<>>
      setDueDate == parsedDate # <<>>
      changesMade == setTitle \/ setDescription \/ setCompleted \/ setDueDate
      i == findIndexFrom(db.tasks,
                         LAMBDA t : taskQuery(identifier.s, userId, t), 1)
      old == db.tasks[i]
      new == [id |-> old.id, user |-> old.user,
              title |-> IF setTitle THEN args.newTitle.s ELSE old.title,
              description |-> IF setDescription THEN args.newDescription
                                                ELSE old.description,
              dueDate |-> IF setDueDate THEN parsedDate ELSE old.dueDate,
              completed |-> IF setCompleted THEN truthy(args.markCompleted)
                                            ELSE old.completed]
  IN IF ~truthy(identifier)
       THEN toolError("Task identifier (title or ID) is required for update.", db)
     ELSE IF ~changesMade
       THEN Outcome(Result(FALSE, "No changes provided for the task update.", Null, <<>>),
                    db.tasks, db.moods, db.messages, db.nextId)
     ELSE IF ~storeOk THEN toolError("store", db)
     ELSE IF i = 0
       THEN Outcome(Result(FALSE, Null, "Task not found or access denied.", <<>>),
                    db.tasks, db.moods, db.messages, db.nextId)
     ELSE Outcome(Result(TRUE, "Task updated successfully.", Null, <<>>),
                  [db.tasks EXCEPT ![i] = new],
                  db.moods, db.messages, db.nextId)

\* a delete_task that tells a task of another user from no task
case_delete_taskTelling(args, userId, db, storeOk) ==
  LET deleteIdentifier == args.identifier
      i == findIndexFrom(db.tasks,
                         LAMBDA t : taskQuery(deleteIdentifier.s, userId, t), 1)
      other == findIndexFrom(db.tasks,
                 LAMBDA t : taskQueryAnyUser(deleteIdentifier.s, userId, t), 1)
  IN IF ~truthy(deleteIdentifier)
       THEN toolError("Task identifier (title or ID) is required for deletion.", db)
     ELSE IF i = 0
       THEN Outcome(Result(FALSE, Null,
                           IF other # 0 THEN "Access denied."
                                        ELSE "Task not found or access denied.", <<>>),
                    db.tasks, db.moods, db.messages, db.nextId)
     ELSE Outcome(Result(TRUE, "Task deleted successfully.", Null, <<>>),
                  RemoveAt(db.tasks, i), db.moods, db.messages, db.nextId)

case_delete_task(args, userId, db, storeOk) ==
  LET deleteIdentifier == args.identifier
      i == findIndexFrom(db.tasks,
                         LAMBDA t : taskQuery(deleteIdentifier.s, userId, t), 1)
  IN IF ~truthy(deleteIdentifier)
       THEN toolError("Task identifier (title or ID) is required for deletion.", db)
     ELSE IF ~storeOk THEN toolError("store", db)
     ELSE IF i = 0
       THEN Outcome(Result(FALSE, Null, "Task not found or access denied.", <<>>),
                    db.tasks, db.moods, db.messages, db.nextId)
     ELSE Outcome(Result(TRUE, "Task deleted successfully.", Null, <<>>),
                  RemoveAt(db.tasks, i), db.moods, db.messages, db.nextId)

\* chat.createdAt is set by the first save: a document made by new Chat(...)
\* has none, and chat.createdAt.toISOString() throws
case_get_session_summary(isNew, db) ==
  IF isNew THEN toolError("Cannot read properties of undefined", db)
  ELSE Outcome(Result(TRUE, Null, Null, <<Len(db.messages)>>),
               db.tasks, db.moods, db.messages, db.nextId)

\* the message at messageIndex counted back from the newest one
feedbackTargetFromEnd(messageIndex, messages) ==
  IF messageIndex.k = "int" /\ messageIndex.n >= 0 /\ messageIndex.n < Len(messages)
    THEN Len(messages) - messageIndex.n
    ELSE 0

\* a give_feedback that writes the rating before it validates it
case_give_feedbackWriteFirst(args, db) ==
  LET messageIndex == args.messageIndex
      rating == args.rating
      target == IF messageIndex.k = "int" /\ messageIndex.n >= 0 /\
                   messageIndex.n < Len(db.messages)
                  THEN messageIndex.n + 1 ELSE 0
      rated == IF target # 0 /\ rating.k = "int"
                 THEN [db.messages EXCEPT ![target].feedback = <<rating.n>>]
                 ELSE db.messages
      failed(text) ==
        Outcome(Result(FALSE, Null, "Server error executing tool: " \o text, <<>>),
                db.tasks, db.moods, rated, db.nextId)
  IN IF target = 0 THEN failed("Invalid message index.")
     ELSE IF db.messages[target].sender # "ai"
       THEN failed("Feedback can only be given for AI messages at the specified index.")
     ELSE IF rating.k # "int" \/ rating.n < 1 \/ rating.n > 5
       THEN failed("Rating must be an integer between 1 and 5.")
     ELSE Outcome(Result(TRUE, "Feedback recorded.", Null, <<rating.n>>),
                  db.tasks, db.moods, rated, db.nextId)

\* the message give_feedback rates (line 486): 0 when there is none
feedbackTarget(messageIndex, messages) ==
  IF messageIndex.k = "int" /\ messageIndex.n >= 0 /\ messageIndex.n < Len(messages)
    THEN messageIndex.n + 1
    ELSE 0

case_give_feedback(args, db) ==
  LET messageIndex == args.messageIndex
      rating == args.rating
      target == feedbackTarget(messageIndex, db.messages)
  IN IF messageIndex.k = "int" /\
        (messageIndex.n < 0 \/ messageIndex.n >= Len(db.messages))
       THEN toolError("Invalid message index.", db)
     ELSE IF target = 0 \/ db.messages[target].sender # "ai"
       THEN toolError("Feedback can only be given for AI messages at the specified index.", db)
     ELSE IF isNaNParseInt(rating) \/ lessThan(rating, 1) \/ greaterThan(rating, 5)
       THEN toolError("Rating must be an integer between 1 and 5.", db)
     ELSE Outcome(Result(TRUE, "Feedback recorded.", Null, numberValue(rating)),
                  db.tasks, db.moods,
                  [db.messages EXCEPT ![target].feedback = numberValue(rating)],
                  db.nextId)

\* the switch on functionName with its try/catch (lines 365-508)
executeTool(functionName, args, userId, isNew, db, storeOk) ==
  CASE functionName = "log_mood" -> case_log_mood(args, userId, db, storeOk)
    [] functionName = "create_task" -> case_create_task(args, userId, db, storeOk)
    [] functionName = "get_tasks" -> case_get_tasks(args, userId, db, storeOk)
    [] functionName = "get_mood_history" -> case_get_mood_history(args, userId, db, storeOk)
    [] functionName = "update_task" -> case_update_task(args, userId, db, storeOk)
    [] functionName = "delete_task" -> case_delete_task(args, userId, db, storeOk)
    [] functionName = "get_session_summary" -> case_get_session_summary(isNew, db)
    [] functionName = "give_feedback" -> case_give_feedback(args, db)
    [] OTHER ->
         Outcome(Result(FALSE, Null, "Tool is not implemented or recognized.", <<>>),
                 db.tasks, db.moods, db.messages, db.nextId)

\* whether the tool's case reads or writes a collection
usesStore(functionName) ==
  functionName \in {"log_mood", "create_task", "get_tasks", "get_mood_history",
                    "update_task", "delete_task"}


(***************************************************************************)
(* State.                                                                  *)
(***************************************************************************)
VARIABLES
  chats,    \* the Chat collection: a sequence of [user, sessionId, messages, v]
  tasks,    \* the Task collection
  moods,    \* the MoodLog collection
  nextId,   \* index into OBJECT_IDS of the next Task _id
  req,      \* per request slot: the local state of one POST /api/chat handler
  turns,    \* chat turns started so far
  listed,   \* tool calls the model has listed so far
  userDocs,   \* the User collection: a sequence of [id, email, password]
  tokenDocs,  \* the PasswordResetToken collection
  pr,         \* per slot: the local state of one password-reset handler
  prStarted   \* password-reset requests started so far

chatVars == <<chats, tasks, moods, nextId, req, turns, listed>>
resetVars == <<userDocs, tokenDocs, pr, prStarted>>
vars == <<chats, tasks, moods, nextId, req, turns, listed,
          userDocs, tokenDocs, pr, prStarted>>

\* request slots; Spec runs the turns one after another in slot 1
Reqs == {1, 2}

\* A response of the model service as the handler sees it: kind is "error"
\* (axios.post rejected: timeout, transport error, non-2xx), "invalid" (no
\* choices[0].message) or "ok".  tool_calls is [present, calls].
Reply(kind, content, present, calls, finish_reason) ==
  [kind |-> kind, content |-> content,
   tool_calls |-> [present |-> present, calls |-> calls],
   finish_reason |-> finish_reason]
NoReply == Reply("none", Null, FALSE, <<>>, Null)

\* the body of a model request: messages, and whether tools and tool_choice
\* are attached
Payload(messages, tools) == [messages |-> messages, tools |-> tools]

\* an HTTP response of the chat turn; toolResults is <<>> when the body has
\* none and <<list>> otherwise
Response(status, message, toolResults, sessionId, messages) ==
  [status |-> status, message |-> message, toolResults |-> toolResults,
   sessionId |-> sessionId, messages |-> messages]

\* the in-memory Chat document: doc is the place of the stored document it
\* was loaded from, base the number of messages it was loaded with, v the
\* __v it was loaded with, rated whether a field of a message was assigned
NoChat ==
  [isNew |-> FALSE, doc |-> 0, messages |-> <<>>, base |-> 0, v |-> 0,
   rated |-> FALSE]
NoInput == [message |-> "", type |-> "text", imageUrl |-> Null]

\* the body of a feedback request; target is the place of the message found
NoFeedbackCall == [messageIndex |-> Absent, feedback |-> Absent, target |-> 0]

IdleReq ==
  [pc |-> "idle", fb |-> NoFeedbackCall, userId |-> Null, sessionId |-> Null, input |-> NoInput,
   chat |-> NoChat, loaded |-> <<>>, history |-> <<>>, calls |-> <<>>,
   events |-> <<>>, responseMessage |-> NoReply, i |-> 1,
   executedToolResults |-> <<>>, toolResultsForClient |-> <<>>,
   finalAiMessageContent |-> Null, responses |-> <<>>,
   answered |-> <<>>, followUp |-> NoReply,
   before |-> [tasks |-> <<>>, moods |-> <<>>]]

\* history variables of a request slot, not read by the handler: loaded is the
\* message list findOne returned, calls the model requests sent, events the
\* order of posts, tool executions, saves and responses, answered the index
\* and store outcome of each tool call that got a result, followUp the second
\* response of the model, before the Task and MoodLog stores as they were when
\* the turn began.

\* unshift in place of push
pushMessageFront(messages, m) == <<m>> \o messages

\* chat.messages.push(m)
pushMessage(messages, m) == Append(messages, m)

\* a loop that stops at the first failed call
loopNextUntilFailure(i, n, result) == IF result.success THEN i + 1 ELSE n + 1

\* the for...of loop of line 332: the call after call i of n, whatever the
\* result of call i
loopNext(i, n, result) == i + 1

\* Chat.findOne({ user: userId, sessionId }): index of the document, 0 if none
findChat(coll, userId, sessionId) ==
  findIndexFrom(coll, LAMBDA c : c.user = userId /\ c.sessionId = sessionId, 1)

\* a save that writes only the first message the turn appended
saveChatFirstOnly(coll, chat, userId, sessionId) ==
  IF chat.isNew
    THEN Append(coll, [user |-> userId, sessionId |-> sessionId,
                       messages |-> SubSeq(chat.messages, 1, 1), v |-> 0])
    ELSE [coll EXCEPT ![chat.doc].messages =
                         @ \o SubSeq(chat.messages, chat.base + 1, chat.base + 1),
                      ![chat.doc].v = @ + 1]

\* a save that writes the whole in-memory document over the stored one
saveChatWhole(coll, chat, userId, sessionId) ==
  IF chat.isNew
    THEN Append(coll, [user |-> userId, sessionId |-> sessionId,
                       messages |-> chat.messages, v |-> 0])
    ELSE [coll EXCEPT ![chat.doc].messages = chat.messages,
                      ![chat.doc].v = @ + 1]

\* a save that puts the messages of the turn in front of the stored ones
saveChatNewestFirst(coll, chat, userId, sessionId) ==
  IF chat.isNew
    THEN Append(coll, [user |-> userId, sessionId |-> sessionId,
                       messages |-> chat.messages, v |-> 0])
    ELSE [coll EXCEPT ![chat.doc].messages =
                         SubSeq(chat.messages, chat.base + 1, Len(chat.messages)) \o @,
                      ![chat.doc].v = @ + 1]

\* chat.save() of Mongoose.  A new document is inserted.  For a loaded one
\* the changes are sent: messages that were only pushed go out as a $push,
\* which appends them to the stored array and increments __v; once a field
\* of a stored message was assigned as well (targetMessage.feedback, line
\* 493) the whole array goes out as a $set, which increments __v and matches
\* only the __v the document was loaded with.
saveChat(coll, chat, userId, sessionId) ==
  IF chat.isNew
    THEN Append(coll, [user |-> userId, sessionId |-> sessionId,
                       messages |-> chat.messages, v |-> 0])
  ELSE IF chat.rated
    THEN [coll EXCEPT ![chat.doc].messages = chat.messages,
                      ![chat.doc].v = @ + 1]
  ELSE [coll EXCEPT ![chat.doc].messages =
                       @ \o SubSeq(chat.messages, chat.base + 1, Len(chat.messages)),
                    ![chat.doc].v = @ + 1]

\* whether chat.save() resolves: the store accepts the write and, for a $set
\* of the array, the stored __v is the loaded one (a VersionError otherwise)
saveSucceeds(coll, chat, storeOk) ==
  storeOk /\ (chat.isNew \/ ~chat.rated \/ coll[chat.doc].v = chat.v)

\* an error path that answers without saving
skipSave(coll, chat, userId, sessionId, ok) == coll

\* line 288 and line 296: try { await chat.save(); } catch (saveErr) { log }
firstFailureSave(coll, chat, userId, sessionId, ok) ==
  IF ok THEN saveChat(coll, chat, userId, sessionId) ELSE coll

\* line 560: try { await chat.save(); } catch (saveErr) { log }
followUpFailureSave(coll, chat, userId, sessionId, ok) ==
  IF ok THEN saveChat(coll, chat, userId, sessionId) ELSE coll

\* the _id position the in-memory document has after a successful save
savedDoc(coll, chat) == IF chat.isNew THEN Len(coll) + 1 ELSE chat.doc

\* String.prototype.trim on the texts the model returns
trim(text) == IF text = " " THEN "" ELSE text

\* a step 7 that stores a placeholder for an empty final AI message
pushFinalOrPlaceholder(messages, content) ==
  pushMessage(messages,
              aiMessageToSave(IF content # Null /\ content # "" /\ trim(content) # ""
                                THEN content
                                ELSE "[AI provided no further text response]"))

\* a step 7 that stores no final AI message
pushNoFinal(messages, content) == messages

\* step 7: push the final AI message when its content is non-empty
pushFinal(messages, content) ==
  IF content # Null /\ content # "" /\ trim(content) # ""
    THEN pushMessage(messages, aiMessageToSave(content))
    ELSE messages

\* tools: aiTools, tool_choice: "auto" on the first request (lines 261-270)
apiPayload(history) == Payload(history, TRUE)

\* a follow-up request that attaches the tools again
followUpPayloadWithTools(history, responseMessage, executedToolResults) ==
  Payload(history
            \o <<Entry("assistant", <<TextPart(responseMessage.content)>>,
                       responseMessage.tool_calls.calls, Null, Null)>>
            \o [k \in 1..Len(executedToolResults) |->
                  Entry("tool", <<Stringify(executedToolResults[k].result)>>,
                        <<>>, executedToolResults[k].tool_call_id,
                        executedToolResults[k].name)],
          TRUE)

\* lines 534-549: follow-up history and payload, without tools
\* the tool entries appended in the reverse of the order of execution
followUpPayloadReversed(history, responseMessage, executedToolResults) ==
  Payload(history
            \o <<Entry("assistant", <<TextPart(responseMessage.content)>>,
                       responseMessage.tool_calls.calls, Null, Null)>>
            \o [k \in 1..Len(executedToolResults) |->
                  LET tr == executedToolResults[Len(executedToolResults) + 1 - k]
                  IN Entry("tool", <<Stringify(tr.result)>>, <<>>,
                           tr.tool_call_id, tr.name)],
          FALSE)

followUpPayload(history, responseMessage, executedToolResults) ==
  Payload(history
            \o <<Entry("assistant", <<TextPart(responseMessage.content)>>,
                       responseMessage.tool_calls.calls, Null, Null)>>
            \o [k \in 1..Len(executedToolResults) |->
                  Entry("tool", <<Stringify(executedToolResults[k].result)>>,
                        <<>>, executedToolResults[k].tool_call_id,
                        executedToolResults[k].name)],
          FALSE)

\* a branch on the presence of tool_calls alone
wantsToolsAnyFinish(reply) == reply.tool_calls.present

\* the branch condition of line 307
wantsTools(reply) ==
  reply.tool_calls.present /\ reply.finish_reason = "tool_calls"

(***************************************************************************)
(* The environment of a run: who calls, what the caller sends, what the    *)
(* model service answers, whether a store operation may fail.              *)
(***************************************************************************)
\* the responses' tool_calls lists: 1..n calls over a menu of calls, one
\* call per identifier at most, with the identifiers the model gives them:
\* ids[1], ids[2], ... in order when distinct, ids[1] for every call otherwise
CallSeqs(menu, ids, distinct, n) ==
  {[j \in 1..Len(c) |-> ToolCall(IF d THEN ids[j] ELSE ids[1],
                                  c[j].type, c[j].name, c[j].arguments)] :
     c \in UNION {[1..k -> menu] : k \in 1..(IF n < Len(ids) THEN n ELSE Len(ids))},
     d \in distinct}

\* the first responses the model may give when it may list up to n calls
Replies1(E, n) ==
  {Reply("error", Null, FALSE, <<>>, Null),
   Reply("invalid", Null, FALSE, <<>>, Null)}
  \cup {Reply("ok", c, FALSE, <<>>, "stop") : c \in E.contents}
  \cup {Reply("ok", Null, TRUE, <<>>, f) : f \in E.emptyCalls}
  \cup {Reply("ok", Null, TRUE, calls, f) :
          calls \in CallSeqs(E.menu, E.ids, E.distinct, n),
          f \in E.finish}
  \cup (IF "textWithCalls" \in DOMAIN E
          THEN {Reply("ok", c, TRUE, calls, f) :
                  c \in E.contents,
                  calls \in {cs \in CallSeqs(E.menu, E.ids, E.distinct, n) :
                               Len(cs) = 1},
                  f \in E.textWithCalls}
               \cup {Reply("ok", c, FALSE, <<>>, f) :
                       c \in E.contents, f \in E.textWithCalls}
          ELSE {})

(***************************************************************************)
(* routes/passwordReset: data.                                             *)
(***************************************************************************)
PrSlots == {1, 2}
\* tokens jwt.sign returns, each with a fresh random salt, in order
RESET_TOKENS == <<"t1", "t2", "t3", "t4", "t5", "t6">>
\* the operations of a handler that can throw, and the faults of one request:
\* none, or one operation that throws
REQUEST_OPS == {"findOne", "updateMany", "create", "sendMail"}
RESET_OPS == {"findOne", "findById", "findByIdAndUpdate", "save"}
Faults(ops) == {{}} \cup {{o} : o \in ops}

\* isValidEmail (lines 14-16) on the addresses requests carry
isValidEmail(email) == email \in {"a@x.io", "nobody@x.io"}
\* isValidPassword (lines 19-21): a string of at least 8 characters
passwordLength(password) ==
  CASE password = "short" -> 5
    [] password = "longpass1" -> 9
    [] password = "longpass2" -> 9
    [] OTHER -> 0
isValidPassword(password) == password # Null /\ passwordLength(password) >= 8
\* bcrypt.hash(password, 10)
bcryptHash(password) == <<"hash", password>>

GENERIC_MESSAGE == "If the email exists, a reset link has been sent."
PrResponse(status, message) == [status |-> status, message |-> message]
\* a handler's locals: email, token and password of the request, the user
\* and the token document found, the operations that throw, and the
\* response sent (<<>> while none is)
IdlePr ==
  [pc |-> "idle", kind |-> Null, email |-> Null, token |-> Null,
   password |-> Null, user |-> Null, doc |-> 0, faults |-> {},
   responses |-> <<>>]

\* one registered user, no token, no request
ResetInit ==
  /\ userDocs = <<[id |-> "u1", email |-> "a@x.io", password |-> <<"hash", "initial">>]>>
  /\ tokenDocs = <<>>
  /\ pr = [s \in PrSlots |-> IdlePr]
  /\ prStarted = 0

Init ==
  /\ chats = <<>>
  /\ tasks = <<>>
  /\ moods = <<>>
  /\ nextId = 1
  /\ req = [r \in Reqs |-> IdleReq]
  /\ turns = 0
  /\ listed = 0
  /\ ResetInit

(***************************************************************************)
(* POST /api/chat, one action per stretch between two awaits.              *)
(***************************************************************************)
\* lines 170-282: findOne, history mapping, push of the user message, and the
\* first model request; a findOne that throws ends in the outer catch (500)
StartTurn(r, E) ==
  /\ req[r].pc \in {"idle", "done"}
  /\ turns < E.maxTurns
  /\ turns' = turns + 1
  /\ \E userId \in E.users, sessionId \in E.sessions, input \in E.inputs,
        ok \in E.storeOk :
       LET d == findChat(chats, userId, sessionId)
           loadedMsgs == IF d = 0 THEN <<>> ELSE chats[d].messages
           history == buildHistory(loadedMsgs, input)
           base == [IdleReq EXCEPT !.userId = userId, !.sessionId = sessionId,
                                   !.input = input,
                                   !.before = [tasks |-> tasks, moods |-> moods]]
       IN req' = [req EXCEPT ![r] =
            IF ~ok
              THEN [base EXCEPT !.pc = "done", !.events = <<"respond">>,
                                !.responses = <<Response(500, "Server Error",
                                                         <<>>, Null, <<>>)>>]
              ELSE [base EXCEPT
                      !.pc = "call1",
                      !.chat = [isNew |-> d = 0, doc |-> d,
                                messages |-> pushMessage(loadedMsgs,
                                                         userMessageToSave(input)),
                                base |-> Len(loadedMsgs),
                                v |-> IF d = 0 THEN 0 ELSE chats[d].v,
                                rated |-> FALSE],
                      !.loaded = loadedMsgs,
                      !.history = history,
                      !.calls = <<apiPayload(history)>>,
                      !.events = <<"post">>]]
  /\ UNCHANGED <<chats, tasks, moods, nextId, listed, resetVars>>

\* lines 283-328 and 589-609: the first response arrives
FirstReply(r, E) ==
  /\ req[r].pc = "call1"
  /\ \E reply \in Replies1(E, E.maxCalls - listed) :
       LET q == req[r] IN
       /\ listed' = listed + Len(reply.tool_calls.calls)
       /\ req' = [req EXCEPT ![r] =
         IF reply.kind # "ok"
           THEN [q EXCEPT !.pc = "save502", !.responseMessage = reply]
         ELSE IF wantsTools(reply)
           THEN [q EXCEPT
                   !.pc = "tools", !.responseMessage = reply, !.i = 1,
                   !.finalAiMessageContent = reply.content,
                   !.chat.messages =
                      pushMessage(@, assistantToolCallRequestMessage(reply))]
         ELSE [q EXCEPT
                 !.pc = "save", !.responseMessage = reply,
                 !.finalAiMessageContent = reply.content,
                 !.chat.messages = pushFinal(@, reply.content)]]
  /\ UNCHANGED <<chats, tasks, moods, nextId, turns, resetVars>>

\* lines 332-530: one iteration of the tool loop
ExecTool(r, E) ==
  /\ req[r].pc = "tools"
  /\ req[r].i <= Len(req[r].responseMessage.tool_calls.calls)
  /\ LET q == req[r]
         n == Len(q.responseMessage.tool_calls.calls)
         toolCall == q.responseMessage.tool_calls.calls[q.i]
         db == [tasks |-> tasks, moods |-> moods,
                messages |-> q.chat.messages, nextId |-> nextId]
     IN
     IF toolCall.type # "function" THEN
       /\ req' = [req EXCEPT ![r].i = loopNext(q.i, n, NoResult)]
       /\ UNCHANGED <<tasks, moods, nextId>>
     ELSE IF ~toolCall.arguments.json THEN
       LET errorResult == Result(FALSE, Null, "Invalid arguments format received from AI.", <<>>)
       IN /\ req' = [req EXCEPT ![r] = [q EXCEPT
                  !.i = loopNext(q.i, n, errorResult),
                  !.answered = Append(@, [idx |-> q.i, storeOk |-> TRUE]),
                  !.executedToolResults = Append(@,
                      [tool_call_id |-> toolCall.id, name |-> toolCall.name,
                       result |-> errorResult]),
                  !.toolResultsForClient = Append(@, errorResult),
                  !.chat.messages = pushMessage(@,
                      parseErrorMessage(toolCall.id, toolCall.name, errorResult))]]
          /\ UNCHANGED <<tasks, moods, nextId>>
     ELSE
       \E storeOk \in (IF usesStore(toolCall.name) THEN E.storeOk ELSE {TRUE}) :
         LET out == executeTool(toolCall.name, toolCall.arguments.obj,
                                q.userId, q.chat.isNew, db, storeOk)
         IN /\ req' = [req EXCEPT ![r] = [q EXCEPT
                    !.i = loopNext(q.i, n, out.result),
                    !.events = Append(@, "exec"),
                    !.answered = Append(@, [idx |-> q.i, storeOk |-> storeOk]),
                    !.executedToolResults = Append(@,
                        [tool_call_id |-> toolCall.id, name |-> toolCall.name,
                         result |-> out.result]),
                    !.toolResultsForClient = Append(@, out.result),
                    !.chat.messages = pushMessage(out.messages,
                        toolResultMessage(toolCall.id, toolCall.name, out.result)),
                    !.chat.rated = @ \/ out.messages # db.messages]]
            /\ tasks' = out.tasks
            /\ moods' = out.moods
            /\ nextId' = out.nextId
  /\ UNCHANGED <<chats, turns, listed, resetVars>>

\* lines 532-554: after the loop, the follow-up request
SendFollowUp(r) ==
  /\ req[r].pc = "tools"
  /\ req[r].i > Len(req[r].responseMessage.tool_calls.calls)
  /\ req' = [req EXCEPT ![r] = [@ EXCEPT
                !.pc = "call2",
                !.events = Append(@, "post"),
                !.calls = Append(@, followUpPayload(req[r].history,
                                                    req[r].responseMessage,
                                                    req[r].executedToolResults))]]
  /\ UNCHANGED <<chats, tasks, moods, nextId, turns, listed, resetVars>>

\* lines 555-586 and 600-615: the follow-up response arrives
SecondReply(r, E) ==
  /\ req[r].pc = "call2"
  /\ \E reply \in E.replies2 :
       LET q == req[r]
           content == IF reply.kind = "ok" /\ reply.content # Null /\ reply.content # ""
                        THEN reply.content ELSE Null
       IN req' = [req EXCEPT ![r] =
            IF reply.kind = "error"
              THEN [q EXCEPT !.pc = "save502b", !.followUp = reply]
              ELSE [q EXCEPT !.pc = "save", !.followUp = reply,
                             !.finalAiMessageContent = content,
                             !.chat.messages = pushFinal(@, content)]]
  /\ UNCHANGED <<chats, tasks, moods, nextId, turns, listed, resetVars>>

\* a first-call error path that answers 502 and goes on to the final save
SaveAfterFirstFailureNoReturn(r, E) ==
  /\ req[r].pc = "save502"
  /\ \E storeOk \in E.storeOk :
       LET q == req[r]
           ok == saveSucceeds(chats, q.chat, storeOk)
       IN
       /\ chats' = firstFailureSave(chats, q.chat, q.userId, q.sessionId, ok)
       /\ req' = [req EXCEPT ![r] = [q EXCEPT
                    !.pc = "save",
                    !.events = q.events \o <<IF ok THEN "save" ELSE "savefail", "respond">>,
                    !.chat = IF ok
                               THEN [q.chat EXCEPT !.isNew = FALSE,
                                                   !.doc = savedDoc(chats, q.chat)]
                               ELSE q.chat,
                    !.responses = Append(@,
                       Response(502,
                                IF q.responseMessage.kind = "error"
                                  THEN "Error: The AI service failed to respond. Please try again later."
                                  ELSE "Error: Received an unexpected response format from the AI service.",
                                <<>>, Null, <<>>))]]
  /\ UNCHANGED <<tasks, moods, nextId, turns, listed, resetVars>>

\* lines 288-290 and 296-297: save in the error path of the first call, its
\* failure swallowed, then the 502
SaveAfterFirstFailure(r, E) ==
  /\ req[r].pc = "save502"
  /\ \E storeOk \in E.storeOk :
       LET q == req[r]
           ok == saveSucceeds(chats, q.chat, storeOk)
       IN
       /\ chats' = firstFailureSave(chats, q.chat, q.userId, q.sessionId, ok)
       /\ req' = [req EXCEPT ![r] = [q EXCEPT
                    !.pc = "done",
                    !.events = q.events \o <<IF ok THEN "save" ELSE "savefail", "respond">>,
                    !.chat = IF ok
                               THEN [q.chat EXCEPT !.isNew = FALSE,
                                                   !.doc = savedDoc(chats, q.chat)]
                               ELSE q.chat,
                    !.responses = Append(@,
                       Response(502,
                                IF q.responseMessage.kind = "error"
                                  THEN "Error: The AI service failed to respond. Please try again later."
                                  ELSE "Error: Received an unexpected response format from the AI service.",
                                <<>>, Null, <<>>))]]
  /\ UNCHANGED <<tasks, moods, nextId, turns, listed, resetVars>>

\* a follow-up failure path that sends the follow-up request once more
\* before it gives up
SaveAfterFollowUpFailureRetry(r, E) ==
  /\ req[r].pc = "save502b"
  /\ \E storeOk \in E.storeOk :
       LET q == req[r]
           ok == saveSucceeds(chats, q.chat, storeOk)
       IN
       IF Len(q.calls) < 3
         THEN /\ chats' = chats
              /\ req' = [req EXCEPT ![r] = [q EXCEPT
                           !.pc = "call2",
                           !.events = Append(@, "post"),
                           !.calls = Append(@, q.calls[Len(q.calls)])]]
         ELSE /\ chats' = followUpFailureSave(chats, q.chat, q.userId, q.sessionId, ok)
              /\ req' = [req EXCEPT ![r] = [q EXCEPT
                           !.pc = "done",
                           !.events = q.events \o <<IF ok THEN "save" ELSE "savefail", "respond">>,
                           !.chat = IF ok
                                      THEN [q.chat EXCEPT !.isNew = FALSE,
                                                          !.doc = savedDoc(chats, q.chat)]
                                      ELSE q.chat,
                           !.responses = Append(@,
                              Response(502,
                                       "Executed requested actions, but the AI failed to provide a final response.",
                                       <<q.toolResultsForClient>>, q.sessionId, <<>>))]]
  /\ UNCHANGED <<tasks, moods, nextId, turns, listed, resetVars>>

\* lines 560-566: save in the error path of the follow-up call, its failure
\* swallowed, then the 502 with toolResults and sessionId
SaveAfterFollowUpFailure(r, E) ==
  /\ req[r].pc = "save502b"
  /\ \E storeOk \in E.storeOk :
       LET q == req[r]
           ok == saveSucceeds(chats, q.chat, storeOk)
       IN
       /\ chats' = followUpFailureSave(chats, q.chat, q.userId, q.sessionId, ok)
       /\ req' = [req EXCEPT ![r] = [q EXCEPT
                    !.pc = "done",
                    !.events = q.events \o <<IF ok THEN "save" ELSE "savefail", "respond">>,
                    !.chat = IF ok
                               THEN [q.chat EXCEPT !.isNew = FALSE,
                                                   !.doc = savedDoc(chats, q.chat)]
                               ELSE q.chat,
                    !.responses = Append(@,
                       Response(502,
                                "Executed requested actions, but the AI failed to provide a final response.",
                                <<q.toolResultsForClient>>, q.sessionId, <<>>))]]
  /\ UNCHANGED <<tasks, moods, nextId, turns, listed, resetVars>>

\* lines 617-643: the final save, then the 200; a save that throws ends in
\* the outer catch (500)
FinalSave(r, E) ==
  /\ req[r].pc = "save"
  /\ \E storeOk \in E.storeOk :
       LET q == req[r]
           ok == saveSucceeds(chats, q.chat, storeOk)
       IN
       /\ chats' = IF ok THEN saveChat(chats, q.chat, q.userId, q.sessionId)
                         ELSE chats
       /\ req' = [req EXCEPT ![r] = [q EXCEPT
                    !.pc = "done",
                    !.events = q.events \o <<IF ok THEN "save" ELSE "savefail", "respond">>,
                    !.chat = IF ok
                               THEN [q.chat EXCEPT !.isNew = FALSE,
                                                   !.doc = savedDoc(chats, q.chat)]
                               ELSE q.chat,
                    !.responses = Append(@,
                       IF ok
                         THEN Response(200, "",
                                       IF Len(q.toolResultsForClient) > 0
                                         THEN <<q.toolResultsForClient>> ELSE <<>>,
                                       q.sessionId,
                                       SliceLast(q.chat.messages, RESPONSE_SLICE))
                         ELSE Response(500, "Server Error", <<>>, Null, <<>>))]]
  /\ UNCHANGED <<tasks, moods, nextId, turns, listed, resetVars>>

(***************************************************************************)
(* POST /api/chat/:sessionId/feedback.                                     *)
(***************************************************************************)
\* validate(feedbackSchema), lines 152-155: both fields required, integers,
\* messageIndex >= 0 and feedback in 1..5 (bodies hold numbers or lack a field)
validateFeedback(messageIndex, feedback) ==
  /\ messageIndex.k = "int" /\ messageIndex.n >= 0
  /\ feedback.k = "int" /\ feedback.n >= 1 /\ feedback.n <= 5

\* lines 885-920: validation, findOne and the checks of the index and of the
\* sender; a findOne that throws ends in the catch (500)
SubmitFeedback(r, E) ==
  /\ req[r].pc \in {"idle", "done"}
  /\ turns < E.maxTurns
  /\ turns' = turns + 1
  /\ \E userId \in E.users, sessionId \in E.sessions,
        messageIndex \in E.fbIndexes, feedback \in E.fbRatings,
        ok \in E.storeOk :
       LET d == findChat(chats, userId, sessionId)
           base == [IdleReq EXCEPT !.userId = userId, !.sessionId = sessionId,
                                   !.fb = [messageIndex |-> messageIndex,
                                           feedback |-> feedback, target |-> 0]]
           respond(status, message) ==
             [base EXCEPT !.pc = "done", !.events = <<"respond">>,
                          !.responses = <<Response(status, message, <<>>, Null, <<>>)>>]
       IN req' = [req EXCEPT ![r] =
            IF ~validateFeedback(messageIndex, feedback)
              THEN respond(400, "Validation error")
            ELSE IF ~ok
              THEN respond(500, "Server error while saving feedback")
            ELSE IF d = 0
              THEN respond(404, "Chat session not found or access denied.")
            ELSE IF messageIndex.n >= Len(chats[d].messages)
              THEN respond(400, "Invalid or missing message index provided.")
            ELSE IF chats[d].messages[messageIndex.n + 1].sender # "ai"
              THEN respond(400, "Feedback can only be provided for AI messages.")
            ELSE [base EXCEPT !.pc = "fbupdate", !.chat.doc = d,
                              !.fb.target = messageIndex.n + 1]]
  /\ UNCHANGED <<chats, tasks, moods, nextId, listed, resetVars>>

\* lines 922-952: updateOne with $set of messages.$.feedback on the message
\* found, then the 200; an updateOne that throws ends in the catch (500)
FeedbackUpdate(r, E) ==
  /\ req[r].pc = "fbupdate"
  /\ \E ok \in E.storeOk :
       LET q == req[r] IN
       /\ chats' = IF ok
                     THEN [chats EXCEPT ![q.chat.doc].messages[q.fb.target].feedback =
                                          <<q.fb.feedback.n>>]
                     ELSE chats
       /\ req' = [req EXCEPT ![r] = [q EXCEPT
                    !.pc = "done", !.events = <<"respond">>,
                    !.responses = <<IF ok
                                      THEN Response(200, "Feedback saved successfully",
                                                    <<>>, Null, <<>>)
                                      ELSE Response(500, "Server error while saving feedback",
                                                    <<>>, Null, <<>>)>>]]
  /\ UNCHANGED <<tasks, moods, nextId, turns, listed, resetVars>>

(***************************************************************************)
(* routes/passwordReset: POST /request and POST /reset/:token, one action  *)
(* per stretch between two awaits.                                          *)
(***************************************************************************)
findUserByEmail(coll, email) == findIndexFrom(coll, LAMBDA u : u.email = email, 1)
findUserById(coll, id) == findIndexFrom(coll, LAMBDA u : u.id = id, 1)
findToken(coll, token) == findIndexFrom(coll, LAMBDA t : t.token = token, 1)

\* PasswordResetToken.updateMany({ userId, used: false }, { used: true })
markAllUsed(coll, userId) ==
  [k \in 1..Len(coll) |->
     IF coll[k].userId = userId /\ ~coll[k].used
       THEN [coll[k] EXCEPT !.used = TRUE] ELSE coll[k]]

\* the catch of POST /request (lines 54-59)
requestCatch(q) ==
  [q EXCEPT !.pc = "done",
            !.responses = <<PrResponse(500, "Server error. Please try again later.")>>]
\* the catch of POST /reset/:token (lines 86-89): logger is not defined in
\* its scope, so logger.error throws in the catch and no response is sent
resetCatch(q) == [q EXCEPT !.pc = "done", !.responses = <<>>]

\* lines 25-35: validation of the email and User.findOne({ email })
RequestFindUser(s) ==
  /\ pr[s].pc \in {"idle", "done"}
  /\ prStarted < PrTurns
  /\ prStarted' = prStarted + 1
  /\ \E email \in {Null, "bad", "a@x.io", "nobody@x.io"}, faults \in Faults(REQUEST_OPS) :
       LET q == [IdlePr EXCEPT !.kind = "request", !.email = email, !.faults = faults]
           u == findUserByEmail(userDocs, email)
       IN pr' = [pr EXCEPT ![s] =
            IF email = Null \/ ~isValidEmail(email)
              THEN [q EXCEPT !.pc = "done",
                             !.responses = <<PrResponse(400, "Invalid email address.")>>]
            ELSE IF "findOne" \in faults THEN requestCatch(q)
            ELSE IF u = 0
              THEN [q EXCEPT !.pc = "done",
                             !.responses = <<PrResponse(200, GENERIC_MESSAGE)>>]
            ELSE [q EXCEPT !.pc = "updateMany", !.user = userDocs[u].id]]
  /\ UNCHANGED <<userDocs, tokenDocs, chatVars>>

\* lines 37-40: the token is signed and the user's unused tokens are marked
RequestInvalidate(s) ==
  /\ pr[s].pc = "updateMany"
  /\ LET q == pr[s] IN
     IF "updateMany" \in q.faults
       THEN /\ pr' = [pr EXCEPT ![s] = requestCatch(q)]
            /\ tokenDocs' = tokenDocs
       ELSE /\ pr' = [pr EXCEPT ![s].pc = "create"]
            /\ tokenDocs' = markAllUsed(tokenDocs, q.user)
  /\ UNCHANGED <<userDocs, prStarted, chatVars>>

\* line 41: PasswordResetToken.create({ userId, token, expiresAt })
RequestCreate(s) ==
  /\ pr[s].pc = "create"
  /\ LET q == pr[s]
         token == RESET_TOKENS[Len(tokenDocs) + 1]
     IN
     IF "create" \in q.faults
       THEN /\ pr' = [pr EXCEPT ![s] = requestCatch(q)]
            /\ tokenDocs' = tokenDocs
       ELSE /\ pr' = [pr EXCEPT ![s] = [q EXCEPT !.pc = "sendMail", !.token = token]]
            /\ tokenDocs' = Append(tokenDocs,
                                   [userId |-> q.user, token |-> token,
                                    expired |-> FALSE, used |-> FALSE, resets |-> 0])
  /\ UNCHANGED <<userDocs, prStarted, chatVars>>

\* lines 42-53: transporter.sendMail with the link, then the response
RequestSend(s) ==
  /\ pr[s].pc = "sendMail"
  /\ LET q == pr[s] IN
     pr' = [pr EXCEPT ![s] =
       IF "sendMail" \in q.faults
         THEN requestCatch(q)
         ELSE [q EXCEPT !.pc = "done",
                        !.responses = <<PrResponse(200, GENERIC_MESSAGE)>>]]
  /\ UNCHANGED <<userDocs, tokenDocs, prStarted, chatVars>>

\* lines 63-74: validation of the password, PasswordResetToken.findOne and
\* the check of used and expiresAt
ResetFindToken(s) ==
  /\ pr[s].pc \in {"idle", "done"}
  /\ prStarted < PrTurns
  /\ prStarted' = prStarted + 1
  /\ \E token \in {"bogus"} \cup {tokenDocs[k].token : k \in 1..Len(tokenDocs)},
        password \in {Null, "short", "longpass1", "longpass2"},
        faults \in Faults(RESET_OPS) :
       LET q == [IdlePr EXCEPT !.kind = "reset", !.token = token,
                               !.password = password, !.faults = faults]
           d == findToken(tokenDocs, token)
       IN pr' = [pr EXCEPT ![s] =
            IF ~isValidPassword(password)
              THEN [q EXCEPT !.pc = "done",
                             !.responses = <<PrResponse(400, "Password must be at least 8 characters.")>>]
            ELSE IF "findOne" \in faults THEN resetCatch(q)
            ELSE IF d = 0 \/ tokenDocs[d].used \/ tokenDocs[d].expired
              THEN [q EXCEPT !.pc = "done",
                             !.responses = <<PrResponse(400, "Token already used or expired.")>>]
            ELSE [q EXCEPT !.pc = "findById", !.doc = d,
                           !.user = tokenDocs[d].userId]]
  /\ UNCHANGED <<userDocs, tokenDocs, chatVars>>

\* lines 75-80: jwt.verify, which throws once the hour of the token is over,
\* and User.findById
ResetFindUser(s) ==
  /\ pr[s].pc = "findById"
  /\ LET q == pr[s] IN
     pr' = [pr EXCEPT ![s] =
       IF tokenDocs[q.doc].expired \/ "findById" \in q.faults
         THEN resetCatch(q)
       ELSE IF findUserById(userDocs, q.user) = 0
         THEN [q EXCEPT !.pc = "done",
                        !.responses = <<PrResponse(400, "Invalid token.")>>]
       ELSE [q EXCEPT !.pc = "findByIdAndUpdate"]]
  /\ UNCHANGED <<userDocs, tokenDocs, prStarted, chatVars>>

\* lines 81-82: bcrypt.hash and User.findByIdAndUpdate; resets counts the
\* password changes made with the token
ResetUpdate(s) ==
  /\ pr[s].pc = "findByIdAndUpdate"
  /\ LET q == pr[s]
         u == findUserById(userDocs, q.user)
     IN
     IF "findByIdAndUpdate" \in q.faults \/ u = 0
       THEN /\ pr' = [pr EXCEPT ![s] = IF u = 0 THEN [q EXCEPT !.pc = "save"]
                                                ELSE resetCatch(q)]
            /\ UNCHANGED <<userDocs, tokenDocs>>
       ELSE /\ pr' = [pr EXCEPT ![s].pc = "save"]
            /\ userDocs' = [userDocs EXCEPT ![u].password = bcryptHash(q.password)]
            /\ tokenDocs' = [tokenDocs EXCEPT ![q.doc].resets = @ + 1]
  /\ UNCHANGED <<prStarted, chatVars>>

\* lines 83-85: tokenDoc.used = true, tokenDoc.save(), then the response
ResetMarkUsed(s) ==
  /\ pr[s].pc = "save"
  /\ LET q == pr[s] IN
     IF "save" \in q.faults
       THEN /\ pr' = [pr EXCEPT ![s] = resetCatch(q)]
            /\ tokenDocs' = tokenDocs
       ELSE /\ pr' = [pr EXCEPT ![s] = [q EXCEPT
                         !.pc = "done",
                         !.responses = <<PrResponse(200, "Password reset successful.")>>]]
            /\ tokenDocs' = [tokenDocs EXCEPT ![q.doc].used = TRUE]
  /\ UNCHANGED <<userDocs, prStarted, chatVars>>

\* the hour of a token passes: expiresAt < Date.now() from now on
TokenExpires ==
  /\ \E k \in 1..Len(tokenDocs) :
       /\ ~tokenDocs[k].expired
       /\ tokenDocs' = [tokenDocs EXCEPT ![k].expired = TRUE]
  /\ UNCHANGED <<userDocs, pr, prStarted, chatVars>>

PasswordReset(s) ==
  \/ RequestFindUser(s)
  \/ RequestInvalidate(s)
  \/ RequestCreate(s)
  \/ RequestSend(s)
  \/ ResetFindToken(s)
  \/ ResetFindUser(s)
  \/ ResetUpdate(s)
  \/ ResetMarkUsed(s)

\* the handler under environment E
Turn(r, E) ==
  \/ StartTurn(r, E)
  \/ FirstReply(r, E)
  \/ ExecTool(r, E)
  \/ SendFollowUp(r)
  \/ SecondReply(r, E)
  \/ SaveAfterFirstFailure(r, E)
  \/ SaveAfterFollowUpFailure(r, E)
  \/ FinalSave(r, E)


(***************************************************************************)
(* Specifications.                                                         *)
(***************************************************************************)
USERS == {"u1"}
SESSIONS == {"s1"}
CALL_IDS == <<"c1", "c2">>
TextInput == [message |-> "hello", type |-> "text", imageUrl |-> Null]
ImageInput == [message |-> "look", type |-> "image", imageUrl |-> "http://img"]

\* the calls the model lists in Spec: a call that succeeds, a tool error
\* (invalid argument, missing identifier, task not found), an unknown tool,
\* arguments that are not JSON, and a call whose type is not 'function'
MainCalls ==
  {[type |-> "function", name |-> "log_mood",
    arguments |-> ArgString([NoArgs EXCEPT !.mood = JInt(8)])],
   [type |-> "function", name |-> "log_mood",
    arguments |-> ArgString([NoArgs EXCEPT !.mood = JInt(11)])],
   [type |-> "function", name |-> "delete_task",
    arguments |-> ArgString([NoArgs EXCEPT !.identifier = JStr("Laundry")])],
   [type |-> "function", name |-> "delete_task", arguments |-> ArgString(NoArgs)],
   [type |-> "function", name |-> "no_such_tool", arguments |-> ArgString(NoArgs)],
   [type |-> "function", name |-> "log_mood", arguments |-> BadArgString],
   [type |-> "retrieval", name |-> "log_mood",
    arguments |-> ArgString([NoArgs EXCEPT !.mood = JInt(8)])]}

MainEnv ==
  [users |-> USERS, sessions |-> SESSIONS, inputs |-> {TextInput},
   contents |-> {Null, "reply"},
   menu |-> MainCalls, ids |-> CALL_IDS, distinct |-> BOOLEAN,
   emptyCalls |-> {}, finish |-> {"tool_calls"},
   replies2 |-> {Reply("error", Null, FALSE, <<>>, Null),
                 Reply("ok", "done", FALSE, <<>>, "stop"),
                 Reply("ok", Null, FALSE, <<>>, "stop"),
                 Reply("ok", "more", TRUE,
                       <<ToolCall("c1", "function", "log_mood",
                                  ArgString([NoArgs EXCEPT !.mood = JInt(8)]))>>,
                       "tool_calls")},
   storeOk |-> BOOLEAN, maxTurns |-> MaxTurns, maxCalls |-> MaxCalls]

Next == Turn(1, MainEnv)

Spec == Init /\ [][Next]_vars

\* long sessions: many turns, few tool calls
WinEnv ==
  [users |-> USERS, sessions |-> SESSIONS, inputs |-> {TextInput},
   contents |-> {"reply"},
   menu |-> {[type |-> "function", name |-> "get_tasks",
              arguments |-> ArgString(NoArgs)]},
   ids |-> CALL_IDS, distinct |-> {TRUE},
   emptyCalls |-> {}, finish |-> {"tool_calls"},
   replies2 |-> {Reply("error", Null, FALSE, <<>>, Null),
                 Reply("ok", "done", FALSE, <<>>, "stop")},
   storeOk |-> {TRUE}, maxTurns |-> WinTurns, maxCalls |-> WinCalls]

NextWindow == Turn(1, WinEnv)

SpecWindow == Init /\ [][NextWindow]_vars

\* the give_feedback calls the model lists in SpecFeedback: indexes below,
\* inside and beyond the session, ratings below, inside and above 1..5, a
\* missing index and a rating that is no number
FeedbackCalls ==
  {[type |-> "function", name |-> "give_feedback",
    arguments |-> ArgString([NoArgs EXCEPT !.messageIndex = JInt(i),
                                           !.rating = JInt(g)])] :
     i \in {-1, 0, 1, 5}, g \in {3}}
  \cup
  {[type |-> "function", name |-> "give_feedback",
    arguments |-> ArgString([NoArgs EXCEPT !.messageIndex = JInt(1),
                                           !.rating = JInt(g)])] :
     g \in {0, 6}}
  \cup
  {[type |-> "function", name |-> "give_feedback",
    arguments |-> ArgString([NoArgs EXCEPT !.rating = JInt(3)])],
   [type |-> "function", name |-> "give_feedback",
    arguments |-> ArgString([NoArgs EXCEPT !.messageIndex = JInt(1),
                                           !.rating = JStr("good")])]}

FeedbackEnv ==
  [users |-> USERS, sessions |-> SESSIONS, inputs |-> {TextInput},
   contents |-> {"reply"},
   menu |-> FeedbackCalls, ids |-> CALL_IDS, distinct |-> {TRUE},
   emptyCalls |-> {}, finish |-> {"tool_calls"},
   replies2 |-> {Reply("error", Null, FALSE, <<>>, Null),
                 Reply("ok", "done", FALSE, <<>>, "stop")},
   storeOk |-> {TRUE}, maxTurns |-> FbTurns, maxCalls |-> FbCalls]

NextFeedback == Turn(1, FeedbackEnv)

SpecFeedback == Init /\ [][NextFeedback]_vars

(***************************************************************************)
(* The tools one by one, over stores that already hold documents of the    *)
(* caller "u1" and of another user "u2" (written through the task and mood *)
(* routes).                                                                *)
(***************************************************************************)
SeededTasks ==
  <<[id |-> "id1", user |-> "u1", title |-> "Laundry",
     description |-> JStr("whites"), dueDate |-> <<"2025-01-01">>,
     completed |-> FALSE],
    [id |-> "id2", user |-> "u2", title |-> "Laundry",
     description |-> Absent, dueDate |-> <<>>, completed |-> FALSE],
    [id |-> "id3", user |-> "u2", title |-> "Taxes",
     description |-> Absent, dueDate |-> <<>>, completed |-> TRUE]>>

SeededMoods ==
  <<[user |-> "u1", mood |-> 7, note |-> Absent, daysAgo |-> 3],
    [user |-> "u2", mood |-> 4, note |-> Absent, daysAgo |-> 0]>>

InitSeeded ==
  /\ chats = <<>>
  /\ tasks = SeededTasks
  /\ moods = SeededMoods
  /\ nextId = Len(SeededTasks) + 1
  /\ req = [r \in Reqs |-> IdleReq]
  /\ turns = 0
  /\ listed = 0
  /\ ResetInit

\* a function call of the menu
Call(name, args) == [type |-> "function", name |-> name, arguments |-> ArgString(args)]

\* the caller "u1" in one session, a model that lists calls of the menu and
\* whose follow-up answers or fails, a store that accepts every operation
ToolEnv(menu) ==
  [users |-> {"u1"}, sessions |-> SESSIONS, inputs |-> {TextInput},
   contents |-> {"reply"},
   menu |-> menu, ids |-> CALL_IDS, distinct |-> {TRUE},
   emptyCalls |-> {}, finish |-> {"tool_calls"},
   replies2 |-> {Reply("error", Null, FALSE, <<>>, Null),
                 Reply("ok", "done", FALSE, <<>>, "stop")},
   storeOk |-> {TRUE}, maxTurns |-> ToolTurns, maxCalls |-> ToolCalls]

\* the read-only tools
ReadCalls ==
  {Call("get_tasks", NoArgs),
   Call("get_tasks", [NoArgs EXCEPT !.completed = JBool(FALSE)]),
   Call("get_mood_history", NoArgs),
   Call("get_mood_history", [NoArgs EXCEPT !.days = JInt(1)]),
   Call("get_session_summary", NoArgs)}
NextRead == Turn(1, ToolEnv(ReadCalls))
SpecRead == InitSeeded /\ [][NextRead]_vars

\* create_task with due dates that parse, that do not, that are empty, that
\* are missing and that are a number, and without a title
CreateCalls ==
  {Call("create_task", [NoArgs EXCEPT !.title = JStr("Groceries"), !.dueDate = d]) :
     d \in {JStr("soon"), JStr("2025-02-02"), JStr(""), Absent, JInt(5)}}
  \cup {Call("create_task", [NoArgs EXCEPT !.dueDate = JStr("soon")])}
NextCreate == Turn(1, ToolEnv(CreateCalls))
SpecCreate == InitSeeded /\ [][NextCreate]_vars

\* log_mood with moods below, inside and above 1..10, as numbers and as
\* strings, and without a mood
MoodCalls ==
  {Call("log_mood", [NoArgs EXCEPT !.mood = m]) :
     m \in {JInt(0), JInt(1), JInt(8), JInt(10), JInt(11),
            JStr("high"), JStr("8"), JStr("15"), Absent}}
NextMood == Turn(1, ToolEnv(MoodCalls))
SpecMood == InitSeeded /\ [][NextMood]_vars

\* delete_task by the title and by the id of a task of the caller, by the
\* title and by the id of a task of another user, by a title and by an id no
\* task has, and without an identifier
DeleteCalls ==
  {Call("delete_task", [NoArgs EXCEPT !.identifier = JStr(i)]) :
     i \in {"Laundry", "id1", "Taxes", "id2", "Nothing", "id8"}}
  \cup {Call("delete_task", NoArgs)}
NextDelete == Turn(1, ToolEnv(DeleteCalls))
SpecDelete == InitSeeded /\ [][NextDelete]_vars

\* get_mood_history without days, with days zero, negative, 1 (no log of the
\* caller is that recent), 7, and a string that is no number
HistoryCalls ==
  {Call("get_mood_history", [NoArgs EXCEPT !.days = d]) :
     d \in {Absent, JInt(0), JInt(-1), JInt(1), JInt(7), JStr("week")}}
NextHistory == Turn(1, ToolEnv(HistoryCalls))
SpecHistory == InitSeeded /\ [][NextHistory]_vars

\* update_task of the caller's task "Laundry" with a newDueDate that does not
\* parse and: nothing else, an empty or a new title, an empty description,
\* markCompleted false or true, an empty title with an empty description and
\* markCompleted false; with no field; with a date that parses; of another
\* user's task by title and by id; of no task; without an identifier
UpdateCalls ==
  {Call("update_task", [NoArgs EXCEPT !.identifier = JStr("Laundry"),
                                      !.newTitle = f[1], !.newDescription = f[2],
                                      !.markCompleted = f[3],
                                      !.newDueDate = JStr("someday")]) :
     f \in {<<Absent, Absent, Absent>>,
            <<JStr(""), Absent, Absent>>,
            <<JStr("Chores"), Absent, Absent>>,
            <<Absent, JStr(""), Absent>>,
            <<Absent, Absent, JBool(FALSE)>>,
            <<Absent, Absent, JBool(TRUE)>>,
            <<JStr(""), JStr(""), JBool(FALSE)>>}}
  \cup {Call("update_task", [NoArgs EXCEPT !.identifier = JStr("Laundry"),
                                           !.newDueDate = d]) :
          d \in {Absent, JStr("2025-02-02")}}
  \cup {Call("update_task", [NoArgs EXCEPT !.identifier = JStr(i),
                                           !.newTitle = JStr("Chores")]) :
          i \in {"Taxes", "id3", "Nothing"}}
  \cup {Call("update_task", [NoArgs EXCEPT !.newTitle = JStr("Chores")])}
NextUpdate == Turn(1, ToolEnv(UpdateCalls))
SpecUpdate == InitSeeded /\ [][NextUpdate]_vars

\* turns of "u1" and of "u2" that read tasks and moods and that update and
\* delete by the title or id of an own task, of a task of the other user and
\* of no task
ScopeCalls ==
  {Call("get_tasks", NoArgs),
   Call("get_mood_history", NoArgs),
   Call("update_task", [NoArgs EXCEPT !.identifier = JStr("Taxes"),
                                      !.newTitle = JStr("Chores")]),
   Call("update_task", [NoArgs EXCEPT !.identifier = JStr("Nothing"),
                                      !.newTitle = JStr("Chores")]),
   Call("delete_task", [NoArgs EXCEPT !.identifier = JStr("id1")]),
   Call("delete_task", [NoArgs EXCEPT !.identifier = JStr("id3")]),
   Call("delete_task", [NoArgs EXCEPT !.identifier = JStr("id8")])}
ScopeEnv == [ToolEnv(ScopeCalls) EXCEPT !.users = {"u1", "u2"}]
NextScope == Turn(1, ScopeEnv)
SpecScope == InitSeeded /\ [][NextScope]_vars

\* chat turns in slot 1 whose model answers directly or rates the message at
\* index 1 with 3 or with 3.5, and feedback requests in slot 2 with indexes
\* and ratings below, inside and above their ranges, missing, and not integer
EndpointEnv ==
  [fbIndexes |-> {Absent, JInt(-1), JInt(0), JInt(1), JInt(5), JFrac(1)},
   fbRatings |-> {Absent, JInt(0), JInt(3), JInt(6), JFrac(3)}]
  @@ [ToolEnv({Call("give_feedback", [NoArgs EXCEPT !.messageIndex = JInt(1),
                                                    !.rating = g]) :
                 g \in {JInt(3), JFrac(3)}})
        EXCEPT !.storeOk = BOOLEAN, !.maxTurns = EpTurns, !.maxCalls = EpCalls]
NextEndpoint ==
  \/ Turn(1, EndpointEnv)
  \/ SubmitFeedback(2, EndpointEnv)
  \/ FeedbackUpdate(2, EndpointEnv)
SpecEndpoint == Init /\ [][NextEndpoint]_vars

\* sessions stored before MessageSchema restricted the sender (the earlier
\* ChatSchema, models/Chat.js lines 3-17, declares sender as a plain
\* String): three messages, each of a user, of the assistant, or of a sender
\* that is none of user, ai, tool
LegacyMessages ==
  {Message("user", "hi", "text", Null),
   Message("ai", "reply", "text", Null),
   Message("system", "note", "text", Null)}
InitLegacy ==
  /\ chats \in {<<[user |-> "u1", sessionId |-> "s1", messages |-> <<a, b, c>>, v |-> 0]>> :
                   a \in LegacyMessages, b \in LegacyMessages, c \in LegacyMessages}
  /\ tasks = SeededTasks
  /\ moods = SeededMoods
  /\ nextId = Len(SeededTasks) + 1
  /\ req = [r \in Reqs |-> IdleReq]
  /\ turns = 0
  /\ listed = 0
  /\ ResetInit
LegacyEnv == [ToolEnv({Call("get_tasks", NoArgs)}) EXCEPT !.storeOk = BOOLEAN]
NextLegacy == Turn(1, LegacyEnv)
SpecLegacy == InitLegacy /\ [][NextLegacy]_vars

\* password-reset requests of two clients, interleaved, while tokens expire
NextReset == PasswordReset(1) \/ PasswordReset(2) \/ TokenExpires
SpecReset == Init /\ [][NextReset]_vars

\* first replies of every shape: with and without tool_calls, with an empty
\* tool_calls array, with finish_reason "tool_calls" and "stop", with a
\* text, a blank text and no text
BranchEnv ==
  [textWithCalls |-> {"tool_calls", "stop"}]
  @@ [ToolEnv({Call("log_mood", [NoArgs EXCEPT !.mood = JInt(8)])})
        EXCEPT !.contents = {Null, "", " ", "reply"},
               !.emptyCalls = {"tool_calls", "stop"},
               !.finish = {"tool_calls", "stop"},
               !.storeOk = BOOLEAN]
NextBranch == Turn(1, BranchEnv)
SpecBranch == Init /\ [][NextBranch]_vars

\* a tool round whose follow-up answers with a text, with null, with the
\* empty string or with a blank, or fails; the store may reject operations
FollowUpEnv ==
  [ToolEnv({Call("log_mood", [NoArgs EXCEPT !.mood = JInt(8)])}) EXCEPT
     !.replies2 = {Reply("error", Null, FALSE, <<>>, Null),
                   Reply("ok", "done", FALSE, <<>>, "stop"),
                   Reply("ok", Null, FALSE, <<>>, "stop"),
                   Reply("ok", "", FALSE, <<>>, "stop"),
                   Reply("ok", " ", FALSE, <<>>, "stop")},
     !.storeOk = BOOLEAN]
NextFollowUp == Turn(1, FollowUpEnv)
SpecFollowUp == Init /\ [][NextFollowUp]_vars

\* the handler is an async function on the event loop: a pending await is
\* resumed once its promise settles (axios has a timeout), so a turn in
\* flight keeps taking steps
SpecRespond == Init /\ [][NextFollowUp]_vars /\ WF_vars(NextFollowUp)

(***************************************************************************)
(* Two requests in flight at once: each await of the handler yields, so    *)
(* the steps of two turns interleave freely.                               *)
(***************************************************************************)
\* one session; text and image inputs tell the turns apart; the model answers
\* directly or lists give_feedback for the message at index 1
ConcurrentEnv ==
  [users |-> USERS, sessions |-> SESSIONS, inputs |-> {TextInput, ImageInput},
   contents |-> {"reply"},
   menu |-> {Call("give_feedback", [NoArgs EXCEPT !.messageIndex = JInt(1),
                                                  !.rating = JInt(3)])},
   ids |-> CALL_IDS, distinct |-> {TRUE},
   emptyCalls |-> {}, finish |-> {"tool_calls"},
   replies2 |-> {Reply("error", Null, FALSE, <<>>, Null),
                 Reply("ok", "done", FALSE, <<>>, "stop")},
   storeOk |-> {TRUE}, maxTurns |-> CcTurns, maxCalls |-> CcCalls]

NextConcurrent == Turn(1, ConcurrentEnv) \/ Turn(2, ConcurrentEnv)

SpecConcurrent == Init /\ [][NextConcurrent]_vars

\* the step of slot r runs the call toolCall of the loop as a function call
\* with parsed arguments
ToolStep(r) ==
  /\ req[r].pc = "tools"
  /\ req[r].i <= Len(req[r].responseMessage.tool_calls.calls)
  /\ req[r].responseMessage.tool_calls.calls[req[r].i].type = "function"
  /\ req[r].responseMessage.tool_calls.calls[req[r].i].arguments.json
  /\ Len(req'[r].executedToolResults) = Len(req[r].executedToolResults) + 1
stepCall(r) == req[r].responseMessage.tool_calls.calls[req[r].i]
stepArgs(r) == stepCall(r).arguments.obj
stepResult(r) ==
  req'[r].executedToolResults[Len(req'[r].executedToolResults)].result


(***************************************************************************)
(* Properties of the chat turn.                                            *)
(***************************************************************************)
\* the messages the turn of slot q has appended to its in-memory session
turnMsgs(q) == SubSeq(q.chat.messages, Len(q.loaded) + 1, Len(q.chat.messages))
toolMsgs(q) == SelectSeq(turnMsgs(q), LAMBDA m : m.sender = "tool")
listedCalls(q) == q.responseMessage.tool_calls.calls
\* the tool loop of the turn has run to its end
LoopDone(q) ==
  /\ wantsTools(q.responseMessage)
  /\ q.pc \in {"call2", "save", "save502b", "done"}
\* the response of a finished turn
Responded(q) == q.pc = "done" /\ Len(q.responses) > 0
lastResponse(q) == q.responses[Len(q.responses)]
\* the stored session of the turn's (user, sessionId): <<>> when there is none
storedMessages(q) ==
  LET d == findChat(chats, q.userId, q.sessionId)
  IN IF d = 0 THEN <<>> ELSE chats[d].messages
\* no save of the turn was rejected by the store
NoSaveFailure(q) == \A k \in 1..Len(q.events) : q.events[k] # "savefail"

\* the (ai message, tool_calls entry) places before position k of ms that
\* carry the tool_call_id of the tool message at k
PairPlaces(ms, k) ==
  UNION {{<<j, e>> : e \in {e \in 1..Len(ms[j].tool_calls) :
                              /\ ms[j].sender = "ai"
                              /\ ms[j].tool_calls[e].id = ms[k].tool_call_id}} :
         j \in 1..(k - 1)}

\* C1 as stated: in every stored session every 'tool' message has a
\* tool_call_id that occurs in exactly one tool_calls entry of an earlier
\* 'ai' message
C1_ExactlyOneRequest ==
  \A d \in 1..Len(chats) :
    \A k \in 1..Len(chats[d].messages) :
      chats[d].messages[k].sender = "tool" =>
        Cardinality(PairPlaces(chats[d].messages, k)) = 1

\* C1 amended: in every stored session every 'tool' message has a
\* tool_call_id that occurs in at least one tool_calls entry of an 'ai'
\* message stored earlier in the same session
C1_Pairing ==
  \A d \in 1..Len(chats) :
    \A k \in 1..Len(chats[d].messages) :
      chats[d].messages[k].sender = "tool" =>
        Cardinality(PairPlaces(chats[d].messages, k)) >= 1

C1_Witness ==
  \E d \in 1..Len(chats) :
    \E k \in 1..Len(chats[d].messages) :
      /\ chats[d].messages[k].sender = "tool"
      /\ Cardinality(PairPlaces(chats[d].messages, k)) = 1
      /\ chats[d].messages[k - 1].sender = "ai"

\* the k-th result of the turn answers call j: the k-th appended 'tool'
\* message carries the identifier and name of call j and the result recorded
\* for it
Answers(q, k, j) ==
  /\ q.answered[k].idx = j
  /\ k <= Len(toolMsgs(q))
  /\ toolMsgs(q)[k].tool_call_id = listedCalls(q)[j].id
  /\ toolMsgs(q)[k].tool_name = listedCalls(q)[j].name
  /\ toolMsgs(q)[k].toolResultData = <<q.executedToolResults[k].result>>

C3_SequentialOrder ==
  \A r \in Reqs :
    wantsTools(req[r].responseMessage) =>
      /\ Len(toolMsgs(req[r])) = Len(req[r].answered)
      /\ \A k \in 1..Len(req[r].answered) :
           /\ Answers(req[r], k, req[r].answered[k].idx)
           /\ req[r].answered[k].idx < req[r].i
           /\ k > 1 => req[r].answered[k - 1].idx < req[r].answered[k].idx
      /\ turnMsgs(req[r])[1].sender = "user"
      /\ turnMsgs(req[r])[2].sender = "ai"
      /\ \A k \in 1..Len(req[r].answered) :
           turnMsgs(req[r])[2 + k] = toolMsgs(req[r])[k]

C3_Witness ==
  \E r \in Reqs :
    /\ Responded(req[r])
    /\ lastResponse(req[r]).status = 200
    /\ Len(req[r].answered) = 2
    /\ ~req[r].executedToolResults[1].result.success
    /\ req[r].executedToolResults[2].result.success
    /\ storedMessages(req[r]) = req[r].chat.messages

\* positions of the model requests in the event order of a turn
Posts(q) == {k \in 1..Len(q.events) : q.events[k] = "post"}

\* C4: a turn sends at most two model requests, the second only on the tool
\* path; the first carries the tools, the second carries none; no tool is
\* executed after the second request
C4_BoundedToolRecursion ==
  \A r \in Reqs :
    /\ Len(req[r].calls) <= 2
    /\ Cardinality(Posts(req[r])) = Len(req[r].calls)
    /\ Len(req[r].calls) >= 1 => req[r].calls[1].tools
    /\ Len(req[r].calls) = 2 =>
         /\ wantsTools(req[r].responseMessage)
         /\ ~req[r].calls[2].tools
    /\ \A k \in 1..Len(req[r].events) :
         req[r].events[k] = "exec" =>
           Cardinality({p \in Posts(req[r]) : p < k}) = 1

C4_Witness ==
  \E r \in Reqs :
    /\ Responded(req[r])
    /\ lastResponse(req[r]).status = 200
    /\ Len(req[r].calls) = 2
    /\ req[r].followUp.tool_calls.present
    /\ Len(req[r].followUp.tool_calls.calls) > 0


\* the first model call of the turn failed: axios.post rejected, or the body
\* had no choices[0].message
FirstCallFailed(q) == q.responseMessage.kind \in {"error", "invalid"}

\* the stored session ends with the user message of the turn
UserMessageStored(q) ==
  /\ Len(storedMessages(q)) = Len(q.loaded) + 1
  /\ storedMessages(q)[Len(q.loaded) + 1] = userMessageToSave(q.input)
  /\ SubSeq(storedMessages(q), 1, Len(q.loaded)) = q.loaded

FollowUpFailed(q) == q.followUp.kind = "error"

\* the 502 of the follow-up path: toolResults of the calls that got one, and
\* the sessionId
PartialResponse(q) ==
  /\ lastResponse(q).status = 502
  /\ lastResponse(q).toolResults = <<q.toolResultsForClient>>
  /\ Len(q.toolResultsForClient) = Len(q.answered)
  /\ lastResponse(q).sessionId = q.sessionId

\* the stored session holds the user message, the assistant tool-call
\* request and every tool result of the turn
ToolRoundStored(q) ==
  /\ storedMessages(q) = q.chat.messages
  /\ Len(turnMsgs(q)) = 2 + Len(q.answered)
  /\ turnMsgs(q)[1] = userMessageToSave(q.input)
  /\ turnMsgs(q)[2] = assistantToolCallRequestMessage(q.responseMessage)
  /\ \A k \in 1..Len(q.answered) :
       turnMsgs(q)[2 + k].toolResultData = <<q.toolResultsForClient[k]>>

KNOWN_TOOLS ==
  {"log_mood", "create_task", "get_tasks", "get_mood_history", "update_task",
   "delete_task", "get_session_summary", "give_feedback"}

FailsInTool(call, userId, storeOk) ==
  LET a == call.arguments.obj IN
  /\ call.type = "function"
  /\ call.arguments.json
  /\ \/ call.name = "log_mood" /\ (a.mood.k # "int" \/ a.mood.n < 1 \/ a.mood.n > 10)
     \/ call.name = "delete_task" /\ ~truthy(a.identifier)
     \/ /\ call.name = "delete_task"
        /\ \A t \in 1..Len(tasks) : ~taskQuery(a.identifier.s, userId, tasks[t])
     \/ call.name \notin KNOWN_TOOLS
     \/ usesStore(call.name) /\ ~storeOk

Renders(e, m) ==
  /\ e.role = (IF m.sender = "ai" THEN "assistant" ELSE m.sender)
  /\ m.sender = "user" => e.content[1] = TextPart(m.message)
  /\ m.sender = "ai" =>
       /\ e.content = <<TextPart(m.message)>>
       /\ Len(e.tool_calls) = Len(m.tool_calls)
       /\ \A j \in 1..Len(m.tool_calls) : e.tool_calls[j].id = m.tool_calls[j].id
  /\ m.sender = "tool" =>
       /\ e.tool_call_id = m.tool_call_id
       /\ e.name = m.tool_name

\* the number of stored messages the first request carries
windowSize(stored) == IF Len(stored) < 10 THEN Len(stored) ELSE 10

\* C8: while the first model request of a turn is in flight, its message list
\* is the last min(n, 10) of the n stored messages of the session, oldest
\* first and in stored order, followed by the new user message as its last
\* element
C8_ContextWindow ==
  \A r \in Reqs :
    LET q == req[r]
        stored == storedMessages(q)
        w == windowSize(stored)
    IN q.pc = "call1" =>
         LET sent == q.calls[1].messages IN
         /\ Len(sent) = w + 1
         /\ Len(sent) <= 11
         /\ sent[w + 1].role = "user"
         /\ sent[w + 1].content = <<TextPart(q.input.message)>>
         /\ \A k \in 1..w : Renders(sent[k], stored[Len(stored) - w + k])

\* a first request over a session of more than 10 stored messages whose
\* window begins inside a tool round
C8_Witness ==
  \E r \in Reqs :
    LET q == req[r]
        stored == storedMessages(q)
    IN /\ q.pc = "call1"
       /\ Len(stored) > 10
       /\ stored[Len(stored) - 9].sender = "tool"
       /\ stored[1].sender = "user"

(***************************************************************************)
(* Properties of the give_feedback tool (SpecFeedback).                    *)
(***************************************************************************)
\* the tool loop of slot r is about to run a give_feedback call
AtFeedbackCall(r) ==
  /\ req[r].pc = "tools"
  /\ req[r].i <= Len(listedCalls(req[r]))
  /\ listedCalls(req[r])[req[r].i].type = "function"
  /\ listedCalls(req[r])[req[r].i].name = "give_feedback"
  /\ listedCalls(req[r])[req[r].i].arguments.json
\* the arguments of that call and the session's message sequence it runs on
feedbackArgs(r) == listedCalls(req[r])[req[r].i].arguments.obj
sessionMessages(r) == req[r].chat.messages
\* the step runs the call: its result is the one the step records
FeedbackStep(r) ==
  /\ AtFeedbackCall(r)
  /\ Len(req'[r].executedToolResults) = Len(req[r].executedToolResults) + 1
feedbackResult(r) ==
  req'[r].executedToolResults[Len(req'[r].executedToolResults)].result
RatingInRange(v) == v.k = "int" /\ v.n >= 1 /\ v.n <= 5
IndexInRange(v, ms) == v.k = "int" /\ v.n >= 0 /\ v.n < Len(ms)
\* the step rates the message at place t with the call's rating and no other
RatesOnly(r, t) ==
  /\ Len(req'[r].chat.messages) = Len(sessionMessages(r)) + 1
  /\ req'[r].chat.messages[t].feedback = <<feedbackArgs(r).rating.n>>
  /\ \A j \in 1..Len(sessionMessages(r)) :
       j # t => req'[r].chat.messages[j].feedback = sessionMessages(r)[j].feedback
\* the step changes the feedback of no message, in memory or stored
RatesNone(r) ==
  /\ \A j \in 1..Len(sessionMessages(r)) :
       req'[r].chat.messages[j].feedback = sessionMessages(r)[j].feedback
  /\ chats' = chats

\* C9 as stated: give_feedback with an integer messageIndex and a rating in
\* 1..5 targets the message at total_messages - 1 - messageIndex (0-based),
\* rates it when it is an assistant message and is rejected otherwise
C9_IndexFromEnd ==
  [][\A r \in Reqs :
       (FeedbackStep(r) /\ IndexInRange(feedbackArgs(r).messageIndex, sessionMessages(r))
          /\ RatingInRange(feedbackArgs(r).rating)) =>
         LET t == Len(sessionMessages(r)) - feedbackArgs(r).messageIndex.n
         IN IF sessionMessages(r)[t].sender = "ai"
              THEN feedbackResult(r).success /\ RatesOnly(r, t)
              ELSE ~feedbackResult(r).success /\ RatesNone(r)]_vars

\* C9 amended: give_feedback with an integer messageIndex and a rating in
\* 1..5 targets the message at messageIndex counted from the start of the
\* session's message sequence (0 is the oldest message), rates it when it is
\* an assistant message and is rejected otherwise
C9_IndexFromStart ==
  [][\A r \in Reqs :
       (FeedbackStep(r) /\ IndexInRange(feedbackArgs(r).messageIndex, sessionMessages(r))
          /\ RatingInRange(feedbackArgs(r).rating)) =>
         LET t == feedbackArgs(r).messageIndex.n + 1
         IN IF sessionMessages(r)[t].sender = "ai"
              THEN feedbackResult(r).success /\ RatesOnly(r, t)
              ELSE ~feedbackResult(r).success /\ RatesNone(r)]_vars

\* a give_feedback call has rated the second message of a session of more
\* than three messages, and another was rejected at index 0, the oldest
\* message, the user's
C9_Witness ==
  \E r \in Reqs :
    LET q == req[r] IN
    /\ Len(q.loaded) >= 2
    /\ Len(q.executedToolResults) = 2
    /\ listedCalls(q)[1].name = "give_feedback"
    /\ listedCalls(q)[1].arguments.obj.messageIndex = JInt(1)
    /\ q.executedToolResults[1].result.success
    /\ q.chat.messages[2].sender = "ai"
    /\ q.chat.messages[2].feedback = <<3>>
    /\ listedCalls(q)[2].arguments.obj.messageIndex = JInt(0)
    /\ listedCalls(q)[2].arguments.obj.rating = JInt(3)
    /\ ~q.executedToolResults[2].result.success
    /\ q.chat.messages[Len(q.chat.messages) - 1].sender = "tool"

\* C10: a give_feedback call whose messageIndex is out of range, whose
\* target message is not an assistant message, or whose rating is outside
\* 1..5 returns success=false with an error text and leaves the feedback
\* field of every message of the session unchanged
C10_RejectedFeedbackChangesNothing ==
  [][\A r \in Reqs :
       (FeedbackStep(r) /\
          (\/ ~IndexInRange(feedbackArgs(r).messageIndex, sessionMessages(r))
           \/ sessionMessages(r)[feedbackArgs(r).messageIndex.n + 1].sender # "ai"
           \/ ~RatingInRange(feedbackArgs(r).rating))) =>
         /\ ~feedbackResult(r).success
         /\ feedbackResult(r).error # Null
         /\ RatesNone(r)]_vars

\* a stored session with a rated message on which two later give_feedback
\* calls were rejected, one for its rating of 6 and one for its index of -1,
\* and the rating is still the one given
C10_Witness ==
  \E r \in Reqs :
    LET q == req[r] IN
    /\ Responded(q)
    /\ lastResponse(q).status = 200
    /\ Len(q.loaded) >= 4
    /\ q.loaded[2].feedback = <<3>>
    /\ Len(q.executedToolResults) = 2
    /\ listedCalls(q)[1].arguments.obj.messageIndex = JInt(1)
    /\ listedCalls(q)[1].arguments.obj.rating = JInt(6)
    /\ listedCalls(q)[2].arguments.obj.messageIndex = JInt(-1)
    /\ listedCalls(q)[2].arguments.obj.rating = JInt(3)
    /\ \A k \in 1..2 : ~q.executedToolResults[k].result.success
    /\ \E d \in 1..Len(chats) :
         /\ Len(chats[d].messages) = Len(q.loaded) + 5
         /\ chats[d].messages[2].feedback = <<3>>
         /\ \A j \in 1..Len(chats[d].messages) :
              j # 2 => chats[d].messages[j].feedback = <<>>

(***************************************************************************)
(* Properties of the single tools.                                         *)
(***************************************************************************)
IsPrefix(a, b) == Len(a) <= Len(b) /\ SubSeq(b, 1, Len(a)) = a
READ_ONLY_TOOLS == {"get_tasks", "get_mood_history", "get_session_summary"}

C12_DateParseResilience ==
  [][\A r \in Reqs :
       (/\ ToolStep(r)
        /\ stepCall(r).name = "create_task"
        /\ stepArgs(r).title.k = "str" /\ stepArgs(r).title.s # ""
        /\ stepArgs(r).dueDate.k = "str"
        /\ stepArgs(r).dueDate.s \notin VALID_DATES) =>
         /\ stepResult(r).success
         /\ Len(tasks') = Len(tasks) + 1
         /\ IsPrefix(tasks, tasks')
         /\ tasks'[Len(tasks')].user = req[r].userId
         /\ tasks'[Len(tasks')].title = stepArgs(r).title.s
         /\ tasks'[Len(tasks')].dueDate = <<>>
         /\ \A k \in 1..Len(tasks) : tasks'[Len(tasks')].id # tasks[k].id
         /\ moods' = moods]_vars

\* a turn has answered 200 after create_task("Groceries", dueDate "soon"):
\* the result is a success and the new task has no due date
C12_Witness ==
  \E r \in Reqs :
    LET q == req[r] IN
    /\ Responded(q)
    /\ lastResponse(q).status = 200
    /\ Len(q.executedToolResults) = 1
    /\ listedCalls(q)[1].name = "create_task"
    /\ listedCalls(q)[1].arguments.obj.dueDate = JStr("soon")
    /\ q.executedToolResults[1].result.success
    /\ Len(tasks) = Len(SeededTasks) + 1
    /\ tasks[Len(tasks)].title = "Groceries"
    /\ tasks[Len(tasks)].user = q.userId
    /\ tasks[Len(tasks)].dueDate = <<>>

\* C13: when the first response lists exactly log_mood({mood: 8}) and the
\* follow-up call succeeds, the turn has created exactly one MoodLog, of the
\* caller and with mood 8, has made the follow-up call, and answers 200 with
\* one toolResults entry whose success is true and with a message list that
\* holds the follow-up's text as an assistant message
C13_ScenarioA ==
  \A r \in Reqs :
    LET q == req[r] IN
    (/\ Responded(q)
     /\ wantsTools(q.responseMessage)
     /\ Len(listedCalls(q)) = 1
     /\ listedCalls(q)[1].type = "function"
     /\ listedCalls(q)[1].name = "log_mood"
     /\ listedCalls(q)[1].arguments = ArgString([NoArgs EXCEPT !.mood = JInt(8)])
     /\ q.followUp.kind = "ok") =>
      /\ Len(moods) = Len(q.before.moods) + 1
      /\ IsPrefix(q.before.moods, moods)
      /\ moods[Len(moods)].user = q.userId
      /\ moods[Len(moods)].mood = 8
      /\ tasks = q.before.tasks
      /\ Len(q.calls) = 2
      /\ lastResponse(q).status = 200
      /\ Len(lastResponse(q).toolResults) = 1
      /\ Len(lastResponse(q).toolResults[1]) = 1
      /\ lastResponse(q).toolResults[1][1].success
      /\ \E k \in 1..Len(lastResponse(q).messages) :
           /\ lastResponse(q).messages[k].sender = "ai"
           /\ lastResponse(q).messages[k].message = q.followUp.content
      /\ lastResponse(q).messages[Len(lastResponse(q).messages)].message =
           q.followUp.content

\* a turn that listed log_mood({mood: 8}) alone has answered 200 with the
\* follow-up's text, and the caller's new MoodLog is in the store
C13_Witness ==
  \E r \in Reqs :
    LET q == req[r] IN
    /\ Responded(q)
    /\ Len(listedCalls(q)) = 1
    /\ listedCalls(q)[1].arguments = ArgString([NoArgs EXCEPT !.mood = JInt(8)])
    /\ q.followUp.kind = "ok"
    /\ q.followUp.content = "done"
    /\ lastResponse(q).status = 200
    /\ moods = Append(SeededMoods,
                      [user |-> "u1", mood |-> 8, note |-> Absent, daysAgo |-> 0])

\* the mood a log_mood argument stands for, <<>> when it is no integer
MoodOf(v) ==
  IF v.k = "int" THEN <<v.n>>
  ELSE IF v = JStr("8") THEN <<8>>
  ELSE IF v = JStr("15") THEN <<15>>
  ELSE <<>>

\* C15: log_mood inserts one MoodLog of the caller with the parsed mood when
\* the mood argument parses to an integer in 1..10; for any other mood value
\* it returns success=false with an error text and leaves the MoodLog store
\* unchanged; every MoodLog a step adds has a mood in 1..10
C15_MoodRange ==
  [][/\ \A r \in Reqs :
          (ToolStep(r) /\ stepCall(r).name = "log_mood") =>
            IF /\ MoodOf(stepArgs(r).mood) # <<>>
               /\ MoodOf(stepArgs(r).mood)[1] >= 1
               /\ MoodOf(stepArgs(r).mood)[1] <= 10
              THEN /\ stepResult(r).success
                   /\ Len(moods') = Len(moods) + 1
                   /\ IsPrefix(moods, moods')
                   /\ moods'[Len(moods')].user = req[r].userId
                   /\ moods'[Len(moods')].mood = MoodOf(stepArgs(r).mood)[1]
              ELSE /\ ~stepResult(r).success
                   /\ stepResult(r).error # Null
                   /\ moods' = moods
     /\ moods' # moods =>
          /\ Len(moods') = Len(moods) + 1
          /\ IsPrefix(moods, moods')
          /\ moods'[Len(moods')].mood \in 1..10]_vars

\* a turn has run log_mood with 0 and then with 10: the first was rejected,
\* the second added the only new MoodLog
C15_Witness ==
  \E r \in Reqs :
    LET q == req[r] IN
    /\ Responded(q)
    /\ Len(q.executedToolResults) = 2
    /\ listedCalls(q)[1].arguments.obj.mood = JInt(0)
    /\ ~q.executedToolResults[1].result.success
    /\ listedCalls(q)[2].arguments.obj.mood = JInt(10)
    /\ q.executedToolResults[2].result.success
    /\ Len(moods) = Len(q.before.moods) + 1
    /\ moods[Len(moods)].mood = 10

\* a task of user u has the identifier as its id or as its exact title
MatchesTaskOf(u, identifier) ==
  \E k \in 1..Len(tasks) :
    /\ tasks[k].user = u
    /\ (tasks[k].id = identifier \/ tasks[k].title = identifier)

\* C14: delete_task with an identifier that is neither the id nor the exact
\* title of a task of the caller returns success=false with the not-found
\* error and leaves the Task store as it was; the tool loop always ends in
\* the follow-up model call
C14_ScenarioB ==
  [][\A r \in Reqs :
       /\ (/\ ToolStep(r)
           /\ stepCall(r).name = "delete_task"
           /\ stepArgs(r).identifier.k = "str"
           /\ stepArgs(r).identifier.s # ""
           /\ ~MatchesTaskOf(req[r].userId, stepArgs(r).identifier.s)) =>
            /\ ~stepResult(r).success
            /\ stepResult(r).error = "Task not found or access denied."
            /\ tasks' = tasks
            /\ req'[r].pc = "tools"
       /\ (req[r].pc = "tools" /\ req'[r].pc # "tools") =>
            /\ req'[r].pc = "call2"
            /\ Len(req'[r].calls) = 2
            /\ tasks' = tasks]_vars

\* a turn has answered 200 after delete_task with the title of another
\* user's task: not found, every task still there, follow-up call made
C14_Witness ==
  \E r \in Reqs :
    LET q == req[r] IN
    /\ Responded(q)
    /\ lastResponse(q).status = 200
    /\ Len(q.executedToolResults) = 1
    /\ listedCalls(q)[1].arguments.obj.identifier = JStr("Taxes")
    /\ ~q.executedToolResults[1].result.success
    /\ Len(q.calls) = 2
    /\ q.followUp.kind = "ok"
    /\ tasks = SeededTasks

\* the mood logs of user u of the last days days
RecentMoods(u, days) ==
  SelectSeq(moods, LAMBDA m : m.user = u /\ m.daysAgo <= days)

\* C16: get_mood_history succeeds when days is absent (30) or a positive
\* integer, with a message when no mood log is found, and returns
\* success=false for a supplied days that is zero, negative or no integer
C16_DaysPositiveInteger ==
  [][\A r \in Reqs :
       (ToolStep(r) /\ stepCall(r).name = "get_mood_history") =>
         LET d == stepArgs(r).days
             days == IF d.k = "absent" THEN 30 ELSE d.n
         IN IF d.k = "absent" \/ (d.k = "int" /\ d.n > 0)
              THEN /\ stepResult(r).success
                   /\ (Len(RecentMoods(req[r].userId, days)) = 0
                         => stepResult(r).message # Null)
              ELSE ~stepResult(r).success]_vars

\* the arguments hold a field that yields a change: a non-empty newTitle, a
\* newDescription, a markCompleted, or a newDueDate that parses
YieldsChange(a) ==
  \/ a.newTitle.k = "str" /\ a.newTitle.s # ""
  \/ a.newDescription.k # "absent"
  \/ a.markCompleted.k # "absent"
  \/ a.newDueDate.k = "str" /\ a.newDueDate.s \in VALID_DATES

\* C17: update_task returns success=false and leaves every Task as it was
\* when its arguments yield no change or when no task of the caller has the
\* identifier as id or exact title
C17_UpdateFails ==
  [][\A r \in Reqs :
       (/\ ToolStep(r)
        /\ stepCall(r).name = "update_task"
        /\ \/ ~YieldsChange(stepArgs(r))
           \/ ~MatchesTaskOf(req[r].userId, stepArgs(r).identifier.s)) =>
         /\ ~stepResult(r).success
         /\ tasks' = tasks]_vars

\* a turn has run update_task("Laundry") with an empty newTitle and a
\* newDueDate that does not parse, then update_task of another user's task
\* "Taxes" with a new title: both failed and every task is as seeded
C17_Witness ==
  \E r \in Reqs :
    LET q == req[r] IN
    /\ Responded(q)
    /\ Len(q.executedToolResults) = 2
    /\ listedCalls(q)[1].arguments =
         ArgString([NoArgs EXCEPT !.identifier = JStr("Laundry"),
                                  !.newTitle = JStr(""),
                                  !.newDueDate = JStr("someday")])
    /\ ~q.executedToolResults[1].result.success
    /\ listedCalls(q)[2].arguments =
         ArgString([NoArgs EXCEPT !.identifier = JStr("Taxes"),
                                  !.newTitle = JStr("Chores")])
    /\ ~q.executedToolResults[2].result.success
    /\ tasks = SeededTasks

\* the first task of user u with the identifier as id or exact title
MatchedTask(u, identifier) ==
  CHOOSE k \in 1..Len(tasks) :
    /\ tasks[k].user = u
    /\ (tasks[k].id = identifier \/ tasks[k].title = identifier)
    /\ \A j \in 1..(k - 1) :
         ~(tasks[j].user = u
           /\ (tasks[j].id = identifier \/ tasks[j].title = identifier))

\* update_task of a task of the caller with a newDueDate string that does
\* not parse
BadDateUpdate(r) ==
  /\ ToolStep(r)
  /\ stepCall(r).name = "update_task"
  /\ MatchesTaskOf(req[r].userId, stepArgs(r).identifier.s)
  /\ stepArgs(r).newDueDate.k = "str"
  /\ stepArgs(r).newDueDate.s # ""
  /\ stepArgs(r).newDueDate.s \notin VALID_DATES

\* C18 as stated: update_task with an unparseable newDueDate and another
\* supplied field succeeds, applies every supplied field, an empty newTitle,
\* an empty newDescription and markCompleted=false included, and leaves
\* dueDate and every other task as they were
C18_EverySuppliedFieldApplied ==
  [][\A r \in Reqs :
       (/\ BadDateUpdate(r)
        /\ \/ stepArgs(r).newTitle.k # "absent"
           \/ stepArgs(r).newDescription.k # "absent"
           \/ stepArgs(r).markCompleted.k # "absent") =>
         LET a == stepArgs(r)
             i == MatchedTask(req[r].userId, a.identifier.s)
             old == tasks[i]
         IN /\ stepResult(r).success
            /\ tasks' = [tasks EXCEPT ![i] =
                 [id |-> old.id, user |-> old.user,
                  title |-> IF a.newTitle.k # "absent" THEN a.newTitle.s
                                                       ELSE old.title,
                  description |-> IF a.newDescription.k # "absent"
                                    THEN a.newDescription ELSE old.description,
                  dueDate |-> old.dueDate,
                  completed |-> IF a.markCompleted.k # "absent"
                                  THEN a.markCompleted.n = 1
                                  ELSE old.completed]]]_vars

\* C18: update_task with an unparseable newDueDate and a non-empty newTitle,
\* a newDescription or a markCompleted succeeds, sets the title when newTitle
\* is not empty, the description when newDescription is supplied (the empty
\* string included) and completed when markCompleted is supplied (false
\* included), ignores an empty newTitle, and leaves dueDate and every other
\* task as they were
C18_SuppliedFieldsApplied ==
  [][\A r \in Reqs :
       (/\ BadDateUpdate(r)
        /\ YieldsChange(stepArgs(r))) =>
         LET a == stepArgs(r)
             i == MatchedTask(req[r].userId, a.identifier.s)
             old == tasks[i]
         IN /\ stepResult(r).success
            /\ tasks' = [tasks EXCEPT ![i] =
                 [id |-> old.id, user |-> old.user,
                  title |-> IF a.newTitle.k = "str" /\ a.newTitle.s # ""
                              THEN a.newTitle.s ELSE old.title,
                  description |-> IF a.newDescription.k # "absent"
                                    THEN a.newDescription ELSE old.description,
                  dueDate |-> old.dueDate,
                  completed |-> IF a.markCompleted.k # "absent"
                                  THEN a.markCompleted.n = 1
                                  ELSE old.completed]]]_vars

\* a turn has run update_task("Laundry", markCompleted true) and then
\* update_task("Laundry", newTitle "", newDescription "", markCompleted
\* false), each with a newDueDate that does not parse: both succeeded, the
\* task is open again with an empty description, its title and due date are
\* the seeded ones
C18_Witness ==
  \E r \in Reqs :
    LET q == req[r] IN
    /\ Responded(q)
    /\ Len(q.executedToolResults) = 2
    /\ listedCalls(q)[1].arguments =
         ArgString([NoArgs EXCEPT !.identifier = JStr("Laundry"),
                                  !.markCompleted = JBool(TRUE),
                                  !.newDueDate = JStr("someday")])
    /\ q.executedToolResults[1].result.success
    /\ listedCalls(q)[2].arguments =
         ArgString([NoArgs EXCEPT !.identifier = JStr("Laundry"),
                                  !.newTitle = JStr(""),
                                  !.newDescription = JStr(""),
                                  !.markCompleted = JBool(FALSE),
                                  !.newDueDate = JStr("someday")])
    /\ q.executedToolResults[2].result.success
    /\ tasks[1].title = "Laundry"
    /\ tasks[1].description = JStr("")
    /\ tasks[1].completed = FALSE
    /\ tasks[1].dueDate = SeededTasks[1].dueDate
    /\ tasks # SeededTasks

(***************************************************************************)
(* Properties of concurrent turns.                                         *)
(***************************************************************************)
\* C19: the Chat collection holds at most one document for each
\* (user, sessionId)
C19_SessionUnique ==
  \A i, j \in 1..Len(chats) :
    (chats[i].user = chats[j].user /\ chats[i].sessionId = chats[j].sessionId)
      => i = j

\* the step of slot r is the chat.save() of a turn on a session it loaded
SaveStepOnLoaded(r) ==
  /\ req[r].pc \in {"save", "save502", "save502b"}
  /\ req'[r].pc = "done"
  /\ ~req[r].chat.isNew

\* C20 as stated (last writer wins): the save of a turn on a session it
\* loaded writes the turn's copy back, so that the stored session is that
\* copy afterwards
C20_LastWriterWins ==
  [][\A r \in Reqs :
       SaveStepOnLoaded(r) =>
         chats'[req[r].chat.doc].messages = req[r].chat.messages]_vars

\* C20: the save of a turn on a session it loaded never removes what another
\* turn stored.  A turn that only appended messages has them appended to the
\* stored list, whatever was stored since it loaded.  A turn that also rated
\* a loaded message stores its copy when the stored list is still the one it
\* loaded; otherwise its save is rejected, the store stays as it is and the
\* final save answers 500: the first writer wins
C20_FirstWriterWins ==
  [][\A r \in Reqs :
       SaveStepOnLoaded(r) =>
         LET q == req[r]
             d == q.chat.doc
             n == Len(q.loaded)
             appended == SubSeq(q.chat.messages, n + 1, Len(q.chat.messages))
         IN IF SubSeq(q.chat.messages, 1, n) = q.loaded
              THEN chats' = [chats EXCEPT
                               ![d].messages = chats[d].messages \o appended,
                               ![d].v = chats[d].v + 1]
            ELSE IF chats[d].messages = q.loaded
              THEN chats'[d].messages = q.chat.messages
            ELSE /\ chats' = chats
                 /\ q.pc = "save" => lastResponse(req'[r]).status = 500]_vars

\* both turns loaded the same stored session and have answered; the second
\* one rated the message at index 1 and got a 500; the stored session is the
\* loaded one followed by the messages of the first turn, holds no message
\* of the second turn and no rating
C20_Witness ==
  LET q1 == req[1]
      q2 == req[2]
  IN /\ Responded(q1) /\ Responded(q2)
     /\ Len(q1.loaded) = 2
     /\ q2.loaded = q1.loaded
     /\ q1.loaded[1].message = "hello"
     /\ q1.input = TextInput
     /\ q2.input = ImageInput
     /\ q2.chat.messages[2].feedback = <<3>>
     /\ lastResponse(q1).status = 200
     /\ lastResponse(q2).status = 500
     /\ Len(chats) = 1
     /\ chats[1].messages = q1.chat.messages
     /\ \A k \in 1..Len(chats[1].messages) :
          /\ chats[1].messages[k].message # "look"
          /\ chats[1].messages[k].feedback = <<>>

(***************************************************************************)
(* Properties of the response paths.                                       *)
(***************************************************************************)
\* the turn ran a tool round and its follow-up call was answered without a
\* text: content null, empty or blank
EmptyFollowUp(q) ==
  /\ LoopDone(q)
  /\ q.followUp.kind = "ok"
  /\ q.followUp.content \in {Null, "", " "}

\* C21 as stated: after a tool round whose follow-up has no text, and with
\* the save accepted, the turn answers 200 and the stored session ends with a
\* final assistant text message of the turn (the content as it is, or a
\* placeholder)
C21_EmptyFinalMessageStored ==
  \A r \in Reqs :
    LET q == req[r] IN
    (Responded(q) /\ EmptyFollowUp(q) /\ NoSaveFailure(q)) =>
      /\ lastResponse(q).status = 200
      /\ Len(turnMsgs(q)) = 3 + Len(q.answered)
      /\ storedMessages(q)[Len(storedMessages(q))].sender = "ai"
      /\ storedMessages(q)[Len(storedMessages(q))].type = "text"

\* C21: after a tool round whose follow-up has no text the turn appends no
\* final assistant message: it has appended the user message, the tool-call
\* request and the tool results only.  With the final save accepted it
\* answers 200 with the toolResults and the last messages of the session,
\* which is stored as the turn left it; with the save rejected it answers 500
C21_EmptyFinalMessageSkipped ==
  \A r \in Reqs :
    LET q == req[r] IN
    (Responded(q) /\ EmptyFollowUp(q)) =>
      /\ Len(turnMsgs(q)) = 2 + Len(q.answered)
      /\ \A k \in 3..Len(turnMsgs(q)) : turnMsgs(q)[k].sender = "tool"
      /\ NoSaveFailure(q) =>
           /\ lastResponse(q).status = 200
           /\ lastResponse(q).toolResults =
                (IF Len(q.toolResultsForClient) > 0
                   THEN <<q.toolResultsForClient>> ELSE <<>>)
           /\ lastResponse(q).messages = SliceLast(q.chat.messages, RESPONSE_SLICE)
           /\ storedMessages(q) = q.chat.messages
      /\ ~NoSaveFailure(q) =>
           /\ lastResponse(q).status = 500
           /\ storedMessages(q) = q.loaded

\* a turn has answered 200 after a tool round with one result and a
\* follow-up whose content is the empty string: the stored session ends with
\* the tool result
C21_Witness ==
  \E r \in Reqs :
    LET q == req[r] IN
    /\ Responded(q)
    /\ EmptyFollowUp(q)
    /\ q.followUp.content = ""
    /\ Len(q.answered) = 1
    /\ lastResponse(q).status = 200
    /\ storedMessages(q) = q.chat.messages
    /\ storedMessages(q)[Len(storedMessages(q))].sender = "tool"

\* positions of the accepted and of the rejected saves in the event order
Saves(q) == {k \in 1..Len(q.events) : q.events[k] = "save"}
SaveFailures(q) == {k \in 1..Len(q.events) : q.events[k] = "savefail"}

\* the findOne of the turn has resolved and the first model request was sent
FoundOrCreated(q) == Len(q.calls) >= 1

\* C22 as stated: a turn that has appended messages and has responded has
\* written every message it appended to the store, by one completed save
\* before the response
C22_AlwaysPersistedBeforeResponse ==
  \A r \in Reqs :
    LET q == req[r] IN
    (Responded(q) /\ FoundOrCreated(q)) =>
      /\ Cardinality(Saves(q)) = 1
      /\ q.events[Len(q.events)] = "respond"
      /\ storedMessages(q) = q.chat.messages

\* C22: a turn attempts at most one save, and only as its last step before
\* the response.  When the save is accepted the stored session holds every
\* message the turn appended, and a 200 is sent only then.  When it is
\* rejected (swallowed on the 502 paths, answered with 500 on the final
\* save), or when findOne failed (500 without a save), the response is sent
\* with nothing of the turn stored.  At no moment does the store hold a part of the turn's
\* messages
C22_PersistBeforeRespond ==
  \A r \in Reqs :
    LET q == req[r] IN
    /\ Cardinality(Saves(q)) + Cardinality(SaveFailures(q)) <= 1
    /\ q.pc # "done" => (Saves(q) = {} /\ SaveFailures(q) = {})
    /\ FoundOrCreated(q) =>
         /\ storedMessages(q) \in {q.loaded, q.chat.messages}
         /\ Saves(q) # {} => storedMessages(q) = q.chat.messages
         /\ Saves(q) = {} => storedMessages(q) = q.loaded
    /\ (Responded(q) /\ ~FoundOrCreated(q)) =>
         /\ q.events = <<"respond">>
         /\ lastResponse(q).status = 500
    /\ Responded(q) =>
         /\ q.events[Len(q.events)] = "respond"
         /\ \A k \in Saves(q) \cup SaveFailures(q) : k = Len(q.events) - 1
         /\ lastResponse(q).status = 200 => Saves(q) # {}
         /\ lastResponse(q).status = 500 => Saves(q) = {}
         /\ (lastResponse(q).status = 502 /\ SaveFailures(q) = {}) => Saves(q) # {}

\* a turn on a stored session has answered 200 after a tool round with two
\* results and a final text: its one save came right before the response and
\* the stored session holds the five messages it appended
C22_Witness ==
  \E r \in Reqs :
    LET q == req[r] IN
    /\ Responded(q)
    /\ lastResponse(q).status = 200
    /\ Len(q.loaded) > 0
    /\ Len(q.answered) = 2
    /\ Len(turnMsgs(q)) = 5
    /\ turnMsgs(q)[5].sender = "ai"
    /\ Saves(q) = {Len(q.events) - 1}
    /\ storedMessages(q) = q.chat.messages

\* positions of the responses in the event order of a turn
Responds(q) == {k \in 1..Len(q.events) : q.events[k] = "respond"}

\* C23: a turn in flight has sent no response and goes on to its end; a turn
\* that has ended has sent exactly one response, as its last step
C23_ExactlyOneResponse ==
  /\ [](\A r \in Reqs :
          LET q == req[r] IN
          /\ q.pc # "done" => (Len(q.responses) = 0 /\ Responds(q) = {})
          /\ q.pc = "done" =>
               /\ Len(q.responses) = 1
               /\ Responds(q) = {Len(q.events)}
               /\ lastResponse(q).status \in {200, 500, 502})
  /\ \A r \in Reqs :
       (req[r].pc \in {"call1", "tools", "call2", "save", "save502", "save502b"})
         ~> (req[r].pc = "done")

\* a turn has ended with its one response, a 500, after a tool round and a
\* final save that the store rejected
C23_Witness ==
  \E r \in Reqs :
    LET q == req[r] IN
    /\ q.pc = "done"
    /\ Len(q.answered) = 1
    /\ q.followUp.kind = "ok"
    /\ SaveFailures(q) # {}
    /\ Len(q.responses) = 1
    /\ lastResponse(q).status = 500

(***************************************************************************)
(* User scoping.                                                           *)
(***************************************************************************)
\* the documents of a collection that user u does not own
NotOf(coll, u) == SelectSeq(coll, LAMBDA d : d.user # u)
\* the result of update_task and delete_task when no task is found
NOT_FOUND == Result(FALSE, Null, "Task not found or access denied.", <<>>)

\* C24: a tool call of a turn of user u leaves every Task and MoodLog of the
\* other users as it was; get_tasks and get_mood_history report the documents
\* of u only; update_task (with a change) and delete_task with an identifier
\* that is no id or title of a task of u return the one not-found result,
\* whether a task of another user has that identifier or no task has, and
\* change no task
C24_UserScoping ==
  [][\A r \in Reqs :
       ToolStep(r) =>
         LET u == req[r].userId
             a == stepArgs(r)
             name == stepCall(r).name
             own == SelectSeq(tasks, LAMBDA t : t.user = u)
             ownMoods == SelectSeq(moods, LAMBDA m : m.user = u /\ m.daysAgo <= 30)
         IN /\ NotOf(tasks', u) = NotOf(tasks, u)
            /\ NotOf(moods', u) = NotOf(moods, u)
            /\ (name = "get_tasks" /\ a.completed.k = "absent") =>
                 stepResult(r).data = (IF Len(own) = 0 THEN <<>> ELSE <<Len(own)>>)
            /\ (name = "get_mood_history" /\ a.days.k = "absent") =>
                 stepResult(r).data =
                   (IF Len(ownMoods) = 0 THEN <<>> ELSE <<Len(ownMoods)>>)
            /\ (/\ name \in {"update_task", "delete_task"}
                /\ a.identifier.k = "str" /\ a.identifier.s # ""
                /\ name = "update_task" => YieldsChange(a)
                /\ ~MatchesTaskOf(u, a.identifier.s)) =>
                 /\ stepResult(r) = NOT_FOUND
                 /\ tasks' = tasks]_vars

\* a turn of "u1" has run delete_task with the id of a task of "u2" and
\* delete_task with an id no task has: the two results are the same not-found
\* result and every task is as seeded
C24_Witness ==
  \E r \in Reqs :
    LET q == req[r] IN
    /\ Responded(q)
    /\ q.userId = "u1"
    /\ Len(q.executedToolResults) = 2
    /\ listedCalls(q)[1].arguments.obj.identifier = JStr("id3")
    /\ listedCalls(q)[2].arguments.obj.identifier = JStr("id8")
    /\ listedCalls(q)[1].name = "delete_task"
    /\ listedCalls(q)[2].name = "delete_task"
    /\ q.executedToolResults[1].result = NOT_FOUND
    /\ q.executedToolResults[2].result = NOT_FOUND
    /\ tasks = SeededTasks



(***************************************************************************)
(* The feedback endpoint and the give_feedback tool.                       *)
(***************************************************************************)
\* the outcome of the give_feedback tool on the messages ms
toolFeedback(messageIndex, rating, ms) ==
  case_give_feedback([NoArgs EXCEPT !.messageIndex = messageIndex, !.rating = rating],
                     [tasks |-> tasks, moods |-> moods, messages |-> ms,
                      nextId |-> nextId])
\* the endpoint's checks on the messages ms
endpointAccepts(messageIndex, feedback, ms) ==
  /\ validateFeedback(messageIndex, feedback)
  /\ messageIndex.n < Len(ms)
  /\ ms[messageIndex.n + 1].sender = "ai"
\* the step is the endpoint's decision on a request for a session it found
EndpointDecision(r) ==
  /\ req[r].pc # "fbupdate"
  /\ req'[r] # req[r]
  /\ req'[r].fb # NoFeedbackCall
  /\ findChat(chats, req'[r].userId, req'[r].sessionId) # 0
  /\ req'[r].pc = "done" => req'[r].responses[1].status = 400
\* the step is the endpoint's updateOne, and it was carried out
EndpointUpdate(r) ==
  /\ req[r].pc = "fbupdate"
  /\ req'[r].pc = "done"
  /\ req'[r].responses[1].status = 200
foundMessages(r) == chats[findChat(chats, req'[r].userId, req'[r].sessionId)].messages

\* C25: the feedback endpoint and the give_feedback tool are equivalent: on
\* the same messages, index and rating both accept or both reject, and an
\* accepted endpoint request leaves the messages the tool would leave
C25_EndpointEquivalentToTool ==
  [][/\ \A r \in Reqs :
          EndpointDecision(r) =>
            (req'[r].pc = "fbupdate" <=>
               toolFeedback(req'[r].fb.messageIndex, req'[r].fb.feedback,
                            foundMessages(r)).result.success)
     /\ \A r \in Reqs :
          EndpointUpdate(r) =>
            chats'[req[r].chat.doc].messages =
              toolFeedback(req[r].fb.messageIndex, req[r].fb.feedback,
                           chats[req[r].chat.doc].messages).messages
     /\ \A r \in Reqs :
          FeedbackStep(r) =>
            (feedbackResult(r).success <=>
               endpointAccepts(feedbackArgs(r).messageIndex, feedbackArgs(r).rating,
                               sessionMessages(r)))]_vars

(***************************************************************************)
(* Replay of stored tool rounds in the first request.                      *)
(***************************************************************************)
\* entry k of the message list sent is a 'tool' entry with no assistant entry
\* before it in the list whose tool_calls hold its tool_call_id
Unpaired(sent, k) ==
  /\ sent[k].role = "tool"
  /\ ~\E j \in 1..(k - 1) :
        /\ sent[j].role = "assistant"
        /\ \E e \in 1..Len(sent[j].tool_calls) :
             sent[j].tool_calls[e].id = sent[k].tool_call_id

\* C26: in the first model request of every turn, each entry with role
\* 'tool' is preceded in that request by an assistant entry whose tool_calls
\* contain its tool_call_id, whatever the length of the session
C26_ReplayPairing ==
  \A r \in Reqs :
    Len(req[r].calls) >= 1 =>
      \A k \in 1..Len(req[r].calls[1].messages) :
        ~Unpaired(req[r].calls[1].messages, k)

(***************************************************************************)
(* The follow-up request.                                                  *)
(***************************************************************************)
\* the listed calls of type 'function', in listed order
functionCalls(q) == SelectSeq(listedCalls(q), LAMBDA c : c.type = "function")
\* the follow-up request of slot q begins with the first request's messages
\* and the assistant message with its tool_calls, and its entries after
\* these are 'tool' entries that answer the calls cs one by one, in order
FollowUpAnswers(q, cs) ==
  LET first == q.calls[1].messages
      sent == q.calls[2].messages
      n == Len(first)
  IN /\ Len(sent) = n + 1 + Len(cs)
     /\ SubSeq(sent, 1, n) = first
     /\ sent[n + 1].role = "assistant"
     /\ sent[n + 1].tool_calls = listedCalls(q)
     /\ \A k \in 1..Len(cs) :
          /\ sent[n + 1 + k].role = "tool"
          /\ sent[n + 1 + k].tool_call_id = cs[k].id
          /\ sent[n + 1 + k].name = cs[k].name
          /\ k <= Len(toolMsgs(q))
          /\ toolMsgs(q)[k].toolResultData # <<>>
          /\ sent[n + 1 + k].content = <<Stringify(toolMsgs(q)[k].toolResultData[1])>>

\* C27 as stated: the follow-up request consists of the first request's
\* messages, the assistant message with its tool_calls, and one 'tool' entry
\* for every tool call of that message, in the order of the calls, with the
\* call's identifier and name and the serialized result
C27_EveryCallHasResultEntry ==
  \A r \in Reqs :
    Len(req[r].calls) >= 2 => FollowUpAnswers(req[r], listedCalls(req[r]))

\* C27 amended: the follow-up request consists of the first request's
\* messages, the assistant message with its tool_calls, and one 'tool' entry
\* for every tool call of type 'function' of that message, in the order of
\* the calls, with the call's identifier and name and the serialized result;
\* a call of another type has no entry
C27_FollowUpCorrespondence ==
  \A r \in Reqs :
    Len(req[r].calls) >= 2 => FollowUpAnswers(req[r], functionCalls(req[r]))

\* a follow-up request after two calls with distinct identifiers, the first
\* of which failed, carrying one entry for each
C27_Witness ==
  \E r \in Reqs :
    LET q == req[r] IN
    /\ Len(q.calls) >= 2
    /\ Len(listedCalls(q)) = 2
    /\ Len(functionCalls(q)) = 2
    /\ listedCalls(q)[1].id # listedCalls(q)[2].id
    /\ ~q.executedToolResults[1].result.success
    /\ q.executedToolResults[2].result.success
    /\ Len(q.calls[2].messages) = Len(q.calls[1].messages) + 3

(***************************************************************************)
(* The branch after the first response (SpecBranch).                       *)
(***************************************************************************)
\* the first response of the turn of slot q has arrived and was usable
FirstArrived(q) == q.responseMessage.kind = "ok"
\* the turn has entered the tool-execution path: it has appended the
\* assistant message that records the tool calls
EnteredToolPath(q) ==
  \E k \in 1..Len(turnMsgs(q)) : turnMsgs(q)[k].type = "tool_request"
\* the first response asks for tools: tool_calls and finish_reason "tool_calls"
AsksForTools(q) ==
  /\ q.responseMessage.tool_calls.present
  /\ q.responseMessage.finish_reason = "tool_calls"
\* the text is one that is stored
NonBlank(content) == content # Null /\ content # "" /\ content # " "
\* no tool has run, no Task or MoodLog has changed and no second model call
\* was made in the turn of slot q
NothingRan(q) ==
  /\ q.executedToolResults = <<>>
  /\ q.toolResultsForClient = <<>>
  /\ \A k \in 1..Len(q.events) : q.events[k] # "exec"
  /\ tasks = q.before.tasks
  /\ moods = q.before.moods
  /\ Len(q.calls) = 1
\* the turn has answered 200 and the stored session is the loaded one
\* followed by the messages ms
StoredTurn(q, ms) ==
  (Responded(q) /\ lastResponse(q).status = 200) =>
     storedMessages(q) = q.loaded \o ms

\* C28 as stated: the turn enters the tool-execution path exactly when the
\* first response has tool_calls and finish_reason "tool_calls"; otherwise
\* no tool runs, no Task or MoodLog changes, no second model call is made,
\* and the model's text is stored as one assistant message
C28_DirectReplyAlwaysStored ==
  \A r \in Reqs :
    LET q == req[r] IN
    FirstArrived(q) =>
      /\ EnteredToolPath(q) <=> AsksForTools(q)
      /\ ~AsksForTools(q) =>
           /\ NothingRan(q)
           /\ StoredTurn(q, <<userMessageToSave(q.input),
                               aiMessageToSave(q.responseMessage.content)>>)

\* C28 amended: as above, and the model's text is stored as one assistant
\* message when it is not null, empty or blank; when it is, the turn stores
\* no assistant message
C28_Branching ==
  \A r \in Reqs :
    LET q == req[r] IN
    FirstArrived(q) =>
      /\ EnteredToolPath(q) <=> AsksForTools(q)
      /\ ~AsksForTools(q) =>
           /\ NothingRan(q)
           /\ StoredTurn(q, IF NonBlank(q.responseMessage.content)
                              THEN <<userMessageToSave(q.input),
                                     aiMessageToSave(q.responseMessage.content)>>
                              ELSE <<userMessageToSave(q.input)>>)

\* a turn answered 200 whose first response listed a log_mood call with
\* finish_reason "stop" and a text: the text is stored, no mood was logged
C28_Witness ==
  \E r \in Reqs :
    LET q == req[r] IN
    /\ Responded(q)
    /\ lastResponse(q).status = 200
    /\ q.responseMessage.tool_calls.present
    /\ Len(q.responseMessage.tool_calls.calls) = 1
    /\ q.responseMessage.finish_reason = "stop"
    /\ q.responseMessage.content = "reply"
    /\ moods = <<>>
    /\ Len(storedMessages(q)) = 2
    /\ storedMessages(q)[2].message = "reply"

(***************************************************************************)
(* get_session_summary.                                                    *)
(***************************************************************************)
\* C29: a step that executes get_session_summary, in any turn including the
\* first turn of a session that was created in this turn and is not saved
\* yet, returns success=true with a messageCount equal to the number of
\* messages of the in-memory session at the time of the call, and leaves
\* every store as it is
C29_SummaryInEveryTurn ==
  [][\A r \in Reqs :
       (ToolStep(r) /\ stepCall(r).name = "get_session_summary") =>
         /\ stepResult(r).success
         /\ stepResult(r).data = <<Len(req[r].chat.messages)>>
         /\ tasks' = tasks /\ moods' = moods /\ chats' = chats]_vars

(***************************************************************************)
(* The stored trace of the writes of a turn.                               *)
(***************************************************************************)
WRITING_TOOLS == {"create_task", "update_task", "delete_task", "log_mood"}
\* the k-th executed call of the turn of slot q has written a Task or a
\* MoodLog: a writing tool that returned success
Wrote(q, k) ==
  /\ q.executedToolResults[k].name \in WRITING_TOOLS
  /\ q.executedToolResults[k].result.success
\* the stored session holds a 'tool' message with the identifier and the
\* result of the k-th executed call
Traced(q, k) ==
  \E j \in 1..Len(storedMessages(q)) :
    /\ storedMessages(q)[j].sender = "tool"
    /\ storedMessages(q)[j].tool_call_id = q.executedToolResults[k].tool_call_id
    /\ storedMessages(q)[j].tool_name = q.executedToolResults[k].name
    /\ storedMessages(q)[j].toolResultData = <<q.executedToolResults[k].result>>

\* C30: once a chat turn has responded, every Task or MoodLog write a tool
\* performed during the turn is recorded in the stored session by a 'tool'
\* message with the call's identifier and result, on every response path,
\* also when a save of the session failed
C30_AuditTraceComplete ==
  \A r \in Reqs :
    Responded(req[r]) =>
      \A k \in 1..Len(req[r].executedToolResults) :
        Wrote(req[r], k) => Traced(req[r], k)

(***************************************************************************)
(* The stored message sequence over time.                                  *)
(***************************************************************************)
\* a message without its feedback field
sansFeedback(m) == [m EXCEPT !.feedback = <<>>]

\* C31: no step of a chat turn removes, reorders or rewrites a stored
\* message: every stored session keeps its user and sessionId, and its
\* messages before the step are, feedback fields aside, a prefix of its
\* messages after the step
C31_AppendOnly ==
  [][/\ Len(chats') >= Len(chats)
     /\ \A d \in 1..Len(chats) :
          /\ chats'[d].user = chats[d].user
          /\ chats'[d].sessionId = chats[d].sessionId
          /\ Len(chats'[d].messages) >= Len(chats[d].messages)
          /\ \A k \in 1..Len(chats[d].messages) :
               sansFeedback(chats'[d].messages[k]) = sansFeedback(chats[d].messages[k])]_vars

\* two turns that both loaded the same stored session of two messages have
\* both answered 200, one of them after rating the second message: the
\* session holds the two messages, the rating, and the messages of both
C31_Witness ==
  \E d \in 1..Len(chats) :
    /\ \A r \in Reqs :
         /\ Responded(req[r])
         /\ lastResponse(req[r]).status = 200
         /\ req[r].chat.doc = d
         /\ Len(req[r].loaded) = 2
    /\ \E r \in Reqs : req[r].chat.rated
    /\ Len(chats[d].messages) = 8
    /\ chats[d].messages[2].feedback = <<3>>

(***************************************************************************)
(* Stored ratings.                                                         *)
(***************************************************************************)
\* C32: after any sequence of chat turns and feedback requests, every stored
\* message that has a feedback value has sender 'ai' and a feedback value
\* that is an integer between 1 and 5
C32_FeedbackInvariant ==
  \A d \in 1..Len(chats) :
    \A k \in 1..Len(chats[d].messages) :
      chats[d].messages[k].feedback # <<>> =>
        /\ chats[d].messages[k].sender = "ai"
        /\ Len(chats[d].messages[k].feedback) = 1
        /\ chats[d].messages[k].feedback[1] \in 1..5

(***************************************************************************)
(* Stored messages of unknown sender (SpecLegacy).                         *)
(***************************************************************************)
KNOWN_SENDERS == {"user", "ai", "tool"}
\* the messages of the window of the turn of slot q, and those of them whose
\* sender is known
windowOf(q) ==
  SubSeq(q.loaded, Len(q.loaded) - windowSize(q.loaded) + 1, Len(q.loaded))
knownOf(q) == SelectSeq(windowOf(q), LAMBDA m : m.sender \in KNOWN_SENDERS)

\* C33: the first model request of a turn leaves out the stored messages of
\* the window whose sender is none of user, ai, tool and carries all other
\* messages of the window, mapped, in stored order, followed by the new
\* user message
C33_UnknownSenderDropped ==
  \A r \in Reqs :
    LET q == req[r] IN
    Len(q.calls) >= 1 =>
      LET sent == q.calls[1].messages
          known == knownOf(q)
      IN /\ Len(sent) = Len(known) + 1
         /\ \A k \in 1..Len(known) : Renders(sent[k], known[k])
         /\ sent[Len(sent)].role = "user"
         /\ sent[Len(sent)].content = <<TextPart(q.input.message)>>

\* the first model request of a turn is in flight on a session whose second
\* stored message has an unknown sender; it carries the first and the third
C33_Witness ==
  \E r \in Reqs :
    LET q == req[r] IN
    /\ q.pc = "call1"
    /\ Len(q.loaded) = 3
    /\ q.loaded[1].sender = "user"
    /\ q.loaded[2].sender = "system"
    /\ q.loaded[3].sender = "ai"
    /\ Len(q.calls[1].messages) = 3
    /\ q.calls[1].messages[2].role = "assistant"

(***************************************************************************)
(* Termination and model calls that fail (SpecRespond).                    *)
(***************************************************************************)
\* the turn of slot q has started and has not sent its response
InFlight(q) == q.pc # "idle" /\ q.pc # "done"

\* C34: every chat turn that has started eventually sends its response,
\* provided each pending store operation and model call returns or fails;
\* every model request of a turn is sent once, and after a model call that
\* failed the turn sends no further request: one request when the first
\* call failed, two when the follow-up failed
C34_TerminationWithoutRetry ==
  /\ \A r \in Reqs : InFlight(req[r]) ~> Responded(req[r])
  /\ [](\A r \in Reqs :
          LET q == req[r] IN
          /\ Cardinality(Posts(q)) = Len(q.calls)
          /\ Len(q.calls) <= 2
          /\ q.responseMessage.kind = "error" =>
               (Len(q.calls) = 1 /\ q.pc \in {"save502", "done"})
          /\ q.followUp.kind = "error" =>
               (Len(q.calls) = 2 /\ q.pc \in {"save502b", "done"}))

\* a turn whose follow-up call failed has answered 502 after two model
\* requests, and another turn before it, whose first call failed, has left
\* its user message in the session
C34_Witness ==
  \E r \in Reqs :
    LET q == req[r] IN
    /\ Responded(q)
    /\ lastResponse(q).status = 502
    /\ q.followUp.kind = "error"
    /\ Len(q.calls) = 2
    /\ Cardinality(Posts(q)) = 2
    /\ Len(q.loaded) = 1

(***************************************************************************)
(* Password reset tokens (SpecReset).                                      *)
(***************************************************************************)
\* the step starts a POST /reset/:token in slot s with a valid password
\* whose findOne returns
ResetLookup(s) ==
  /\ pr[s].pc \in {"idle", "done"}
  /\ pr'[s] # pr[s]
  /\ pr'[s].kind = "reset"
  /\ isValidPassword(pr'[s].password)
  /\ "findOne" \notin pr'[s].faults
\* the step is the updateMany of a POST /request in slot s, and it returns
Invalidation(s) ==
  /\ pr[s].pc = "updateMany"
  /\ pr'[s].pc = "create"

\* C35: reset tokens are single-use for every interleaving of requests: no
\* token changes a password more than once; a POST /reset/:token that finds
\* its token used or expired is answered 400 and goes no further; the
\* updateMany of a POST /request leaves no token of the user unused
C35_SingleUse ==
  /\ [](\A k \in 1..Len(tokenDocs) : tokenDocs[k].resets <= 1)
  /\ [][\A s \in PrSlots :
          /\ ResetLookup(s) =>
               LET d == findToken(tokenDocs, pr'[s].token) IN
               (d = 0 \/ tokenDocs[d].used \/ tokenDocs[d].expired) =>
                  /\ pr'[s].pc = "done"
                  /\ pr'[s].responses =
                       <<PrResponse(400, "Token already used or expired.")>>
          /\ Invalidation(s) =>
               \A k \in 1..Len(tokenDocs') :
                 tokenDocs'[k].userId = pr[s].user => tokenDocs'[k].used]_vars

\* slot s has answered a POST /request that carried a well-formed email
AnsweredRequest(s) ==
  /\ pr[s].pc = "done"
  /\ pr[s].kind = "request"
  /\ pr[s].email # Null
  /\ isValidEmail(pr[s].email)

\* C36: two POST /request calls with well-formed emails that meet the same
\* failing operations (none, the user lookup, the token store, the mailer)
\* get the same status and body, whether or not a user has the email
C36_NoUserEnumeration ==
  \A a \in PrSlots, b \in PrSlots :
    (AnsweredRequest(a) /\ AnsweredRequest(b) /\ pr[a].faults = pr[b].faults) =>
       pr[a].responses = pr[b].responses

====
